---- MODULE Spec2Model ----
(***************************************************************************)
(* A model of cleanup_juno.py: the sweep of main() over the two compose    *)
(* manifests and the docker daemon.  Python strings are sequences of       *)
(* one-character strings, so that prefixing, splitting at ':' and          *)
(* lower-casing are computed and not assumed.                              *)
(***************************************************************************)
EXTENDS Integers, Sequences, FiniteSets, TLC

\* ------------------------------------------------------------------ bounds

\* How many daemon calls in one behaviour the environment may fail although
\* the daemon is reachable and the target exists (resource in use, a call
\* that cannot be launched, unparseable output).
MaxFaults == 2

\* ----------------------------------------------------------------- strings

s_juno == <<"j","u","n","o">>
s_helios == <<"h","e","l","i","o","s">>
s_app1 == <<"a","p","p","1">>
s_Juno1 == <<"J","u","n","o","1">>
s_data == <<"d","a","t","a">>
s_juno_data == <<"j","u","n","o","_","d","a","t","a">>
s_keep == <<"k","e","e","p">>
s_net == <<"n","e","t">>
s_juno_net == <<"j","u","n","o","_","n","e","t">>
s_app_10 == <<"r","e","p","o","/","a","p","p",":","1",".","0">>
s_app_latest == <<"r","e","p","o","/","a","p","p",":","l","a","t","e","s","t">>
s_cache == <<"r","e","p","o","/","c","a","c","h","e">>
s_junox == <<"j","u","n","o","/","x",":","1">>
s_corpy == <<"c","o","r","p","/","y",":","1">>
s_dangling == <<"<","n","o","n","e",">",":","<","n","o","n","e",">">>
s_i1 == <<"i","1">>
s_i2 == <<"i","2">>
s_i3 == <<"i","3">>
s_i4 == <<"i","4">>
s_noproject == <<>>

UpperChars == <<"A","B","C","D","E","F","G","H","I","J","K","L","M",
                "N","O","P","Q","R","S","T","U","V","W","X","Y","Z">>

LowerChars == <<"a","b","c","d","e","f","g","h","i","j","k","l","m",
                "n","o","p","q","r","s","t","u","v","w","x","y","z">>

\* str.lower() on one character
LowerChar(c) ==
  IF \E i \in 1..Len(UpperChars) : UpperChars[i] = c
  THEN LowerChars[CHOOSE i \in 1..Len(UpperChars) : UpperChars[i] = c]
  ELSE c

\* str.lower()
Lower(s) == [i \in 1..Len(s) |-> LowerChar(s[i])]

\* p in s
Contains(s, p) ==
  \E i \in 0..(Len(s) - Len(p)) : SubSeq(s, i + 1, i + Len(p)) = p

\* the index of the first c in s, 0 when there is none
FirstIndex(s, c) ==
  IF \E i \in 1..Len(s) : s[i] = c
  THEN CHOOSE i \in 1..Len(s) : s[i] = c /\ \A j \in 1..(i - 1) : s[j] # c
  ELSE 0

\* the index of the last c in s, 0 when there is none
LastIndex(s, c) ==
  IF \E i \in 1..Len(s) : s[i] = c
  THEN CHOOSE i \in 1..Len(s) : s[i] = c /\ \A j \in (i + 1)..Len(s) : s[j] # c
  ELSE 0

\* image.split(":")[0] if ":" in image else image
image_base(image) ==
  IF FirstIndex(image, ":") # 0
  THEN SubSeq(image, 1, FirstIndex(image, ":") - 1)
  ELSE image

\* f"{project}_{name}"
Prefixed(project, name) == project \o <<"_">> \o name

\* ------------------------------------------------------------ python values

\* What yaml.safe_load builds: None, a string, a list, a dict (a sequence of
\* <<key, value>> pairs).
PyNone == [t |-> "none"]

PyStr(s) == [t |-> "str", v |-> s]

PyList(xs) == [t |-> "list", v |-> xs]

PyDict(kvs) == [t |-> "dict", v |-> kvs]

\* bool(value)
Truthy(val) == val.t # "none" /\ val.v # <<>>

\* d.get(k, default) on a dict d
Get(d, k, default) ==
  IF \E i \in 1..Len(d.v) : d.v[i][1] = k
  THEN d.v[CHOOSE i \in 1..Len(d.v) : d.v[i][1] = k][2]
  ELSE default

\* d.keys()
Keys(d) == {d.v[i][1] : i \in 1..Len(d.v)}

\* d.values()
Values(d) == {d.v[i][2] : i \in 1..Len(d.v)}

\* ---------------------------------------------------------------- manifests

\* A manifest file on disk: missing, unreadable or syntactically broken, or a
\* document that yaml.safe_load turns into `tree` (None for an empty file).
MissingFile == [kind |-> "missing", tree |-> PyNone]

BrokenFile == [kind |-> "broken", tree |-> PyNone]

OkFile(tree) == [kind |-> "ok", tree |-> tree]

\* services: {app: {container_name: app1, image: repo/app:1.0}}, volumes: {data:}
T_base ==
  PyDict(<< <<"services", PyDict(<< <<"app",
                PyDict(<< <<"container_name", PyStr(s_app1)>>,
                          <<"image", PyStr(s_app_10)>> >>) >> >>) >>,
            <<"volumes", PyDict(<< <<s_data, PyNone>> >>) >> >>)

\* an overlay that declares no resource: services: {app: {restart: always}}
T_plain ==
  PyDict(<< <<"services", PyDict(<< <<"app",
                PyDict(<< <<"restart", PyStr(<<"a","l","w","a","y","s">>)>> >>) >> >>) >> >>)

\* an overlay with a build cache, a service entry that is no mapping, and a
\* network: services: {app: {build: {cache_from: [repo/cache]}}, aux: x},
\* networks: {net:}
T_net ==
  PyDict(<< <<"services", PyDict(<<
                <<"app", PyDict(<< <<"build",
                     PyDict(<< <<"cache_from", PyList(<<PyStr(s_cache)>>)>> >>) >> >>) >>,
                <<"aux", PyStr(<<"x">>)>> >>) >>,
            <<"networks", PyDict(<< <<s_net, PyNone>> >>) >> >>)

\* an overlay whose services key holds no mapping: services: (nothing),
\* volumes: {data:}
T_malformed ==
  PyDict(<< <<"services", PyNone>>,
            <<"volumes", PyDict(<< <<s_data, PyNone>> >>) >> >>)

\* what `docker compose config` prints for the two files, once resolved: the
\* image tag substituted, the project's network added
T_merged ==
  PyDict(<< <<"services", PyDict(<< <<"app",
                PyDict(<< <<"container_name", PyStr(s_app1)>>,
                          <<"image", PyStr(s_app_latest)>> >>) >> >>) >>,
            <<"volumes", PyDict(<< <<s_data, PyNone>> >>) >>,
            <<"networks", PyDict(<< <<s_net, PyNone>> >>) >> >>)

\* every tree the model hands to _extract_from_config
Trees == <<T_base, T_plain, T_net, T_malformed, T_merged>>

\* the place of a tree in Trees
IndexOf(tree) == CHOOSE i \in 1..Len(Trees) : Trees[i] = tree

\* the states of docker-compose.yml the model is run on
BaseFiles == <<MissingFile, BrokenFile, OkFile(PyNone), OkFile(T_base)>>

\* the states of docker-compose.runtime.yml the model is run on
RuntimeFiles == <<MissingFile, OkFile(T_plain), OkFile(T_net), OkFile(T_malformed)>>

\* exists() left unasked
ExistsAlways(file) == TRUE

\* file_path.exists()
Exists(file) == file.kind # "missing"

\* parse_compose_file: None for a missing file and for one that cannot be
\* read or parsed, the tree otherwise
parse_compose_file(file) ==
  IF ~Exists(file) THEN PyNone
  ELSE IF file.kind = "broken" THEN PyNone
  ELSE file.tree

\* --------------------------------------------------------------- extractor

\* the project list before helios was added
project_names_juno_only == <<s_juno>>

\* ComposeResourceExtractor.__init__, line 156
project_names == <<s_juno, s_helios>>

\* ComposeResourceExtractor.__init__: the twelve empty sets
NewExtractor ==
  [containers |-> {}, images |-> {}, volumes |-> {}, networks |-> {},
   containers_independent |-> {}, containers_merged |-> {},
   images_independent |-> {}, images_merged |-> {},
   volumes_independent |-> {}, volumes_merged |-> {},
   networks_independent |-> {}, networks_merged |-> {}]

\* config.get("services", {})
ServicesOf(config) == Get(config, "services", PyDict(<<>>))

\* the service entries that are mappings (the others are skipped)
ServiceDicts(config) == {sc \in Values(ServicesOf(config)) : sc.t = "dict"}

\* a value that set.add() accepts
Hashable(val) == val.t \in {"none", "str"}

\* build entries left unread
CacheFromIgnored(sc) == {}

\* the cache_from entries of one service: build and cache_from of the
\* expected shape, else none
CacheFromOf(sc) ==
  LET build_config == Get(sc, "build", PyDict(<<>>))
      cache_from == IF build_config.t = "dict"
                    THEN Get(build_config, "cache_from", PyList(<<>>))
                    ELSE PyList(<<>>)
  IN IF cache_from.t = "list"
     THEN {cache_from.v[i] : i \in 1..Len(cache_from.v)}
     ELSE {}

\* the values _extract_from_config adds for one service under `key`
Declared(config, key) ==
  {Get(sc, key, PyNone) : sc \in {s \in ServiceDicts(config) : Truthy(Get(s, key, PyNone))}}

\* every value _extract_from_config passes to images.add()
DeclaredImages(config) ==
  Declared(config, "image")
    \cup {img \in UNION {CacheFromOf(sc) : sc \in ServiceDicts(config)} : Truthy(img)}

\* config.get(key, {}) when it is a dict, its keys; else nothing
TopLevelKeys(config, key) ==
  LET val == Get(config, key, PyDict(<<>>))
  IN IF val.t = "dict" THEN Keys(val) ELSE {}

\* _extract_from_config raises: .get on a tree that is no dict, .items() on
\* a services value that is no dict, or add() of an unhashable value
ExtractRaises(config) ==
  \/ config.t # "dict"
  \/ ServicesOf(config).t # "dict"
  \/ \E val \in Declared(config, "container_name") \cup DeclaredImages(config) :
        ~Hashable(val)

\* _extract_from_config that writes the union sets only
extract_without_shadows(ex, config, source) ==
  [ex EXCEPT !.containers = @ \cup {val.v : val \in Declared(config, "container_name")},
             !.images = @ \cup {val.v : val \in DeclaredImages(config)},
             !.volumes = @ \cup TopLevelKeys(config, "volumes"),
             !.networks = @ \cup TopLevelKeys(config, "networks")]

\* _extract_from_config that assigns the union sets instead of adding to them
extract_replacing(ex, config, source) ==
  LET ind == source = "independent"
      cs == {val.v : val \in Declared(config, "container_name")}
      is == {val.v : val \in DeclaredImages(config)}
      vs == TopLevelKeys(config, "volumes")
      ns == TopLevelKeys(config, "networks")
  IN [ex EXCEPT !.containers = cs, !.images = is, !.volumes = vs, !.networks = ns,
                !.containers_independent = IF ind THEN cs ELSE @,
                !.containers_merged = IF ind THEN @ ELSE cs,
                !.images_independent = IF ind THEN is ELSE @,
                !.images_merged = IF ind THEN @ ELSE is,
                !.volumes_independent = IF ind THEN vs ELSE @,
                !.volumes_merged = IF ind THEN @ ELSE vs,
                !.networks_independent = IF ind THEN ns ELSE @,
                !.networks_merged = IF ind THEN @ ELSE ns]

\* _extract_from_config(config, source) on extractor state ex, when it does
\* not raise
extract_from_config(ex, config, source) ==
  LET cs == {val.v : val \in Declared(config, "container_name")}
      is == {val.v : val \in DeclaredImages(config)}
      vs == TopLevelKeys(config, "volumes")
      ns == TopLevelKeys(config, "networks")
      ind == source = "independent"
  IN [containers |-> ex.containers \cup cs,
      images |-> ex.images \cup is,
      volumes |-> ex.volumes \cup vs,
      networks |-> ex.networks \cup ns,
      containers_independent |-> ex.containers_independent \cup (IF ind THEN cs ELSE {}),
      containers_merged |-> ex.containers_merged \cup (IF ind THEN {} ELSE cs),
      images_independent |-> ex.images_independent \cup (IF ind THEN is ELSE {}),
      images_merged |-> ex.images_merged \cup (IF ind THEN {} ELSE is),
      volumes_independent |-> ex.volumes_independent \cup (IF ind THEN vs ELSE {}),
      volumes_merged |-> ex.volumes_merged \cup (IF ind THEN {} ELSE vs),
      networks_independent |-> ex.networks_independent \cup (IF ind THEN ns ELSE {}),
      networks_merged |-> ex.networks_merged \cup (IF ind THEN {} ELSE ns)]

\* `base_config or {}`
OrEmpty(config) == IF Truthy(config) THEN config ELSE PyDict(<<>>)

\* extract_all raises: one of the two trees is truthy and its extraction
\* raises
ExtractAllRaises(base_config, runtime_config) ==
  \/ Truthy(base_config) /\ ExtractRaises(base_config)
  \/ Truthy(runtime_config) /\ ExtractRaises(runtime_config)

\* extract_all on a new extractor: both trees, base first, each when truthy
extract_all(base_config, runtime_config) ==
  LET e1 == IF Truthy(OrEmpty(base_config))
            THEN extract_from_config(NewExtractor, OrEmpty(base_config), "independent")
            ELSE NewExtractor
  IN IF Truthy(OrEmpty(runtime_config))
     THEN extract_from_config(e1, OrEmpty(runtime_config), "independent")
     ELSE e1

\* the patterns of clean_leftover_images_by_pattern, line 565, and those
\* main gives to the reporter, line 709
patterns == <<s_juno, s_helios>>

\* any(pattern in name.lower() for pattern in pats)
MatchesPattern(name, pats) ==
  \E i \in 1..Len(pats) : Contains(Lower(name), pats[i])

\* DockerReporter.__init__: self.patterns = patterns or ["juno", "helios"]
DockerReporter(arg) == IF Truthy(arg) THEN arg.v ELSE <<s_juno, s_helios>>

\* ------------------------------------------------------------------ state

VARIABLES
  baseFile,        \* docker-compose.yml on disk
  runtimeFile,     \* docker-compose.runtime.yml on disk
  daemon,          \* the daemon's live containers, images, volumes, networks
  daemonUp,        \* whether the daemon answers during this sweep
  faults,          \* calls failed by the environment so far (<= MaxFaults)
  run,             \* 1 in the first sweep, 2 when the script is run again
  dry_run,         \* args.dry_run
  pc,              \* where main() is
  base_config,     \* parse_compose_file(base_compose)
  runtime_config,  \* parse_compose_file(runtime_compose)
  ex,              \* the ComposeResourceExtractor
  extracted,       \* the trees _extract_from_config was given, with their source
  todo,            \* what the running for loop has still to visit
  cur,             \* the loop variable (container, image, volume, network)
  idx,             \* the index into project_names of the running project loop
  tags,            \* clean_images: the enumerated references still to remove
  exit_code,       \* the process's exit status, -1 while it runs
  exc,             \* the exception that ended the process, "none" if none
  raised_in,       \* the function the exception left, "none" if none
  executed,        \* commands handed to subprocess.run in this sweep
  would_run,       \* commands announced as "[DRY-RUN] Would run" in this sweep
  nonzero,         \* the executed commands that returned a nonzero exit
  launch_failed,   \* a command of this sweep could not be launched
  disturbed,       \* the environment failed a call of this sweep
  response,        \* what the confirmation prompt of this sweep received
  report,          \* what print_report found, and what it concluded
  reporter_patterns, \* the DockerReporter's self.patterns
  start_daemon,    \* the daemon's state when this sweep started
  prev,            \* one summary per finished sweep
  items,           \* calculate_total_size: the size strings of the records given
  total,           \* calculate_total_size: what it returned
  text,            \* format_bytes: what it returned for that total
  environ,         \* os.environ.get("COMPOSE_PROJECT_NAME"), None when unset
  root_dir_name,   \* ROOT_DIR.name, the name of the launcher's directory
  setup_script,    \* setup-jetson.py on disk
  state_file,      \* .setup_complete.toml on disk
  lpc,             \* where the launcher's main() is
  combined_file,   \* whether the temporary merged manifest is on disk
  launched,        \* the launcher's subprocess.run calls, in order
  returncode,      \* the launcher's exit status, -1 while it runs
  setup            \* the last run of setup-jetson.py: what it noted and returned

vars == <<baseFile, runtimeFile, daemon, daemonUp, faults, run, dry_run, pc,
          base_config, runtime_config, ex, extracted, todo, cur, idx, tags, exit_code,
          exc, raised_in, executed, would_run, nonzero, launch_failed, disturbed,
          response, report, reporter_patterns, start_daemon, prev,
          items, total, text, environ, root_dir_name, setup_script, state_file,
          lpc, combined_file, launched, returncode, setup>>

files == <<baseFile, runtimeFile>>

\* what run_command and subprocess.run change
io == <<daemon, faults, executed, would_run, nonzero, launch_failed, disturbed>>

\* the position of main()
ctl == <<pc, todo, cur, idx, tags, exit_code, exc, raised_in>>

\* what the sweep has read and computed
data == <<base_config, runtime_config, ex, response, report>>

\* the reporter's size functions, when they are run on their own
sizes == <<items, total, text>>

\* the launcher: its environment, the provisioning files, its position
launcher == <<environ, root_dir_name, setup_script, state_file, lpc, combined_file,
              launched, returncode, setup>>

\* what is fixed for the length of one sweep
sweep == <<run, dry_run, daemonUp, start_daemon, prev, reporter_patterns, sizes,
           launcher>>

\* ------------------------------------------------------------------ daemon

\* A container, volume or network row: its name and the compose project
\* label it carries (empty when it carries none).
Row(name, project) == [name |-> name, project |-> project]

\* An image row: the image id and one Repository:Tag of it.
ImageRow(id, ref) == [id |-> id, ref |-> ref]

EmptyDaemon == [containers |-> {}, images |-> {}, volumes |-> {}, networks |-> {}]

\* app1 and the unnamed-service container of project helios; two tags of
\* repo/app, an image with two names of which one matches a pattern, a
\* dangling image; a project volume and a foreign one; a project network.
FullDaemon ==
  [containers |-> {Row(s_app1, s_juno), Row(s_Juno1, s_helios)},
   images |-> {ImageRow(s_i1, s_app_10), ImageRow(s_i2, s_app_latest),
               ImageRow(s_i3, s_junox), ImageRow(s_i3, s_corpy),
               ImageRow(s_i4, s_dangling)},
   volumes |-> {Row(s_juno_data, s_juno), Row(s_keep, s_noproject)},
   networks |-> {Row(s_juno_net, s_juno)}]

\* the daemon states a behaviour starts from
DaemonInits == <<EmptyDaemon, FullDaemon>>

Cmd(op, arg) == [op |-> op, arg |-> arg]

\* the calls that change the daemon
MutatingOps == {"stop", "rm", "rmi", "volume_rm", "network_rm", "down", "down_v", "prune"}

\* the calls that only read: compose config, docker images <repo>, docker
\* images, docker ps -a, docker volume ls, docker network ls
ReadOnlyOps == {"config", "images_repo", "images_ids", "ps", "images", "volume_ls", "network_ls"}

Mutating(cmds) == {c \in cmds : c.op \in MutatingOps}

\* docker compose can load both manifest files
ComposeLoadable ==
  /\ baseFile.kind = "ok" /\ baseFile.tree.t = "dict"
  /\ runtimeFile.kind = "ok" /\ runtimeFile.tree.t = "dict"

\* the repository of Repository:Tag, as the daemon splits it: at the last ':'
RepositoryOf(ref) ==
  IF LastIndex(ref, ":") # 0 THEN SubSeq(ref, 1, LastIndex(ref, ":") - 1) ELSE ref

\* docker rmi <x> names this row: by its reference, by its id, or by its
\* repository when x has no tag and the row is :latest
RmiNames(x, row) ==
  \/ row.ref = x
  \/ row.id = x
  \/ FirstIndex(x, ":") = 0 /\ row.ref = x \o <<":","l","a","t","e","s","t">>

\* the rows a removal call names
Targets(d, cmd) ==
  CASE cmd.op \in {"stop", "rm"} -> {r \in d.containers : r.name = cmd.arg}
    [] cmd.op = "rmi" -> {r \in d.images : RmiNames(cmd.arg, r)}
    [] cmd.op = "volume_rm" -> {r \in d.volumes : r.name = cmd.arg}
    [] cmd.op = "network_rm" -> {r \in d.networks : r.name = cmd.arg}
    [] OTHER -> {}

\* the exit status of a call the daemon answers: removal of what is not
\* there fails, compose fails on files it cannot load
NaturalOutcome(d, cmd) ==
  CASE cmd.op \in {"stop", "rm", "rmi", "volume_rm", "network_rm"} ->
         IF Targets(d, cmd) # {} THEN "ok" ELSE "nonzero"
    [] cmd.op \in {"down", "down_v", "config"} ->
         IF ComposeLoadable THEN "ok" ELSE "nonzero"
    [] OTHER -> "ok"

\* the daemon after a call that succeeded
Effect(d, cmd) ==
  CASE cmd.op = "rm" -> [d EXCEPT !.containers = @ \ Targets(d, cmd)]
    [] cmd.op = "rmi" -> [d EXCEPT !.images = @ \ Targets(d, cmd)]
    [] cmd.op = "volume_rm" -> [d EXCEPT !.volumes = @ \ Targets(d, cmd)]
    [] cmd.op = "network_rm" -> [d EXCEPT !.networks = @ \ Targets(d, cmd)]
    [] cmd.op = "down" ->
         [d EXCEPT !.containers = {r \in @ : r.project # cmd.arg},
                   !.networks = {r \in @ : r.project # cmd.arg}]
    [] cmd.op = "down_v" ->
         [d EXCEPT !.containers = {r \in @ : r.project # cmd.arg},
                   !.networks = {r \in @ : r.project # cmd.arg},
                   !.volumes = {r \in @ : r.project # cmd.arg}]
    [] cmd.op = "prune" -> [d EXCEPT !.images = {r \in @ : r.ref # s_dangling}]
    [] OTHER -> d

\* what a call can come to: "ok" (exit 0, done), "nonzero" (a nonzero exit,
\* nothing done), "nolaunch" (subprocess.run raises OSError).  compose config
\* is computed by the client and needs no daemon.
Outcomes(cmd) ==
  (IF daemonUp \/ cmd.op = "config" THEN {NaturalOutcome(daemon, cmd)} ELSE {"nonzero"})
    \cup (IF faults < MaxFaults THEN {"nonzero", "nolaunch"} ELSE {})

\* the environment failed a call that the daemon would have served
IsFault(cmd, o) ==
  \/ o = "nolaunch"
  \/ o = "garbage"
  \/ o = "nonzero" /\ (daemonUp \/ cmd.op = "config") /\ NaturalOutcome(daemon, cmd) = "ok"

\* subprocess.run(cmd): the call is made and comes to o
Subprocess(cmd, o) ==
  /\ executed' = executed \cup {cmd}
  /\ daemon' = IF o = "ok" THEN Effect(daemon, cmd) ELSE daemon
  /\ nonzero' = IF o = "nonzero" THEN nonzero \cup {cmd} ELSE nonzero
  /\ faults' = IF IsFault(cmd, o) THEN faults + 1 ELSE faults
  /\ launch_failed' = (launch_failed \/ o = "nolaunch")
  /\ disturbed' = (disturbed \/ IsFault(cmd, o))
  /\ UNCHANGED would_run

\* ------------------------------------------------------------- run_command

\* the outcomes run_command(cmd, dry_run=dry) can meet
OutcomesFor(cmd, dry) == IF dry THEN {"skipped"} ELSE Outcomes(cmd)

\* run_command without its dry-run branch: the command always runs
run_command_forgets_dry(cmd, dry, o) ==
  Subprocess(cmd, IF ~dry THEN o
                  ELSE IF daemonUp THEN NaturalOutcome(daemon, cmd) ELSE "nonzero")

\* run_command whose dry-run branch returns without announcing anything
run_command_silent(cmd, dry, o) ==
  IF dry
  THEN UNCHANGED <<daemon, faults, executed, would_run, nonzero, launch_failed, disturbed>>
  ELSE Subprocess(cmd, o)

\* run_command(cmd, dry_run=dry): announce in dry-run, else run
run_command(cmd, dry, o) ==
  IF dry
  THEN /\ would_run' = would_run \cup {cmd}
       /\ UNCHANGED <<daemon, faults, executed, nonzero, launch_failed, disturbed>>
  ELSE Subprocess(cmd, o)

\* run_command with check=True: a nonzero exit raises as well
RunCommandRaisesChecked(dry, o) == ~dry /\ o \in {"nolaunch", "nonzero"}

\* run_command lets the exception out: only CalledProcessError is caught,
\* which check=False never raises
RunCommandRaises(dry, o) == ~dry /\ o = "nolaunch"

\* result.returncode left unread: any result of the enumeration is used
ReturnedAnything(dry, o) == ~dry

\* result and result.returncode == 0
ReturnedZero(dry, o) == ~dry /\ o = "ok"

\* -------------------------------------------------------------- control

\* main() goes on at p
Goto(p, t, c, i) ==
  /\ pc' = p
  /\ todo' = t
  /\ cur' = c
  /\ idx' = i
  /\ tags' = {}
  /\ UNCHANGED <<exit_code, exc, raised_in>>

\* an exception leaves main(): the interpreter prints it and exits with 1
Raise(e, where) ==
  /\ pc' = "crashed"
  /\ exit_code' = 1
  /\ exc' = e
  /\ raised_in' = where
  /\ UNCHANGED <<todo, cur, idx, tags>>

\* return code
Return(code) ==
  /\ pc' = "done"
  /\ exit_code' = code
  /\ UNCHANGED <<todo, cur, idx, tags, exc, raised_in>>

NoReport ==
  [containers |-> {}, images |-> {}, volumes |-> {}, networks |-> {}, total_items |-> -1]

NoResponse == [kind |-> "none", text |-> <<>>]

\* no size has been computed
NoSizes == items = <<>> /\ total = PyNone /\ text = PyNone

\* a file of the provisioning: not there
NoFile == [kind |-> "missing", lines |-> <<>>]

\* setup-jetson.py has not been run
NoSetup ==
  [ran |-> FALSE, before |-> NoFile, root_missing_actions |-> {},
   changes_made |-> FALSE, returncode |-> -1]

\* the launcher has not been started
NoLauncher ==
  /\ environ = PyNone
  /\ root_dir_name = s_juno
  /\ setup_script = NoFile
  /\ state_file = NoFile
  /\ lpc = "none"
  /\ combined_file = FALSE
  /\ launched = <<>>
  /\ returncode = -1
  /\ setup = NoSetup

\* --------------------------------------------------------- main: discovery

\* the check of line 637 left out
NothingParsedSkipped(b, r) == FALSE

\* not base_config and not runtime_config
NothingParsed(b, r) == ~Truthy(b) /\ ~Truthy(r)

\* main, lines 630-639: parse both files, give up when neither gave a tree
ParseComposeFiles ==
  /\ pc = "parse"
  /\ base_config' = parse_compose_file(baseFile)
  /\ runtime_config' = parse_compose_file(runtimeFile)
  /\ IF NothingParsed(base_config', runtime_config')
     THEN Return(1)
     ELSE Goto("extract", {}, <<>>, 1)
  /\ UNCHANGED <<files, io, sweep, ex, extracted, response, report>>

\* main, lines 641-644: the extractor is built and reads the two trees
ExtractAll ==
  /\ pc = "extract"
  /\ IF ExtractAllRaises(base_config, runtime_config)
     THEN Raise("AttributeError", "extract_all") /\ UNCHANGED <<ex, extracted>>
     ELSE /\ ex' = extract_all(base_config, runtime_config)
          /\ extracted' = {<<IndexOf(config), "independent">> :
                              config \in {c \in {base_config, runtime_config} : Truthy(c)}}
          /\ Goto("merged", {}, <<>>, 1)
  /\ UNCHANGED <<files, io, sweep, base_config, runtime_config, response, report>>

\* the for loop over project_names goes on, or main goes on at `after`
NextProject(here, after) ==
  IF idx < Len(project_names)
  THEN Goto(here, todo, cur, idx + 1)
  ELSE Goto(after, {}, <<>>, 1)

\* get_merged_compose_config with result.returncode left unread
MergedConfigAlways(o) == T_merged

\* what get_merged_compose_config returns when its call came to o: the
\* parsed output, or None
MergedConfigOf(o) == IF o = "ok" THEN T_merged ELSE PyNone

\* the outcomes of `docker compose config`: those of any call, and output
\* that yaml.safe_load rejects
ConfigOutcomes(cmd) ==
  Outcomes(cmd)
    \cup (IF faults < MaxFaults /\ NaturalOutcome(daemon, cmd) = "ok" THEN {"garbage"} ELSE {})

\* main, lines 648-651, with get_merged_compose_config: one project's merged
\* config is fetched and, when there is one, extracted
GetMergedConfig ==
  /\ pc = "merged"
  /\ LET cmd == Cmd("config", project_names[idx])
     IN IF ~Exists(baseFile) \/ ~Exists(runtimeFile)
        THEN /\ UNCHANGED <<io, ex, extracted>>
             /\ NextProject("merged", "down")
        ELSE \E o \in ConfigOutcomes(cmd) :
               /\ Subprocess(cmd, o)
               /\ IF Truthy(MergedConfigOf(o))
                  THEN IF ExtractRaises(MergedConfigOf(o))
                       THEN Raise("AttributeError", "extract_from_merged")
                              /\ UNCHANGED <<ex, extracted>>
                       ELSE /\ ex' = extract_from_config(ex, MergedConfigOf(o), "merged")
                            /\ extracted' = extracted \cup {<<IndexOf(MergedConfigOf(o)), "merged">>}
                            /\ NextProject("merged", "down")
                  ELSE /\ UNCHANGED <<ex, extracted>>
                       /\ NextProject("merged", "down")
  /\ UNCHANGED <<files, sweep, base_config, runtime_config, response, report>>

\* ----------------------------------------------------------- main: cleanup

\* what no cleanup step changes
kept == <<files, sweep, base_config, runtime_config, ex, extracted>>

\* clean_compose_projects starts
EnterCleanComposeProjects == Goto("compose_down", {}, <<>>, 1)

\* clean_networks reading the independent shadow set
EnterCleanNetworksIndependent ==
  IF ex.networks_independent = {}
  THEN EnterCleanComposeProjects
  ELSE Goto("cn_bare", ex.networks_independent, <<>>, 1)

\* clean_networks, lines 527-531: nothing to do without networks
EnterCleanNetworks ==
  IF ex.networks = {}
  THEN EnterCleanComposeProjects
  ELSE Goto("cn_bare", ex.networks, <<>>, 1)

\* clean_compose_projects called where clean_volumes should be
ComposeProjectsBeforeVolumes == Goto("compose_down", {}, <<>>, 1)

\* clean_volumes, lines 509-513
EnterCleanVolumes ==
  IF ex.volumes = {}
  THEN EnterCleanNetworks
  ELSE Goto("cv_bare", ex.volumes, <<>>, 1)

\* clean_images, lines 481-485
EnterCleanImages ==
  IF ex.images = {}
  THEN EnterCleanVolumes
  ELSE Goto("ci_rmi", ex.images, <<>>, 1)

\* main without its call of clean_containers
ContainersSkipped == EnterCleanImages

\* clean_containers, lines 467-471
EnterCleanContainers ==
  IF ex.containers = {}
  THEN EnterCleanImages
  ELSE Goto("cc_stop", ex.containers, <<>>, 1)

\* main, lines 671-682: a plain compose down for one project
BringDown ==
  /\ pc = "down"
  /\ LET cmd == Cmd("down", project_names[idx])
     IN \E o \in OutcomesFor(cmd, dry_run) :
          /\ run_command(cmd, dry_run, o)
          /\ IF RunCommandRaises(dry_run, o)
             THEN Raise("OSError", "main")
             ELSE IF idx < Len(project_names)
                  THEN Goto("down", todo, cur, idx + 1)
                  ELSE EnterCleanContainers
  /\ UNCHANGED <<kept, response, report>>

\* docker rm only for a container that docker stop stopped
AfterStopChecked(container, o) ==
  IF o = "nonzero"
  THEN IF todo \ {container} = {}
       THEN EnterCleanImages
       ELSE Goto("cc_stop", todo \ {container}, <<>>, idx)
  ELSE Goto("cc_rm", todo, container, idx)

\* clean_containers, lines 474-477: whatever docker stop returned, docker rm
\* of the same container is next
AfterStop(container, o) == Goto("cc_rm", todo, container, idx)

\* clean_containers, lines 472-474: docker stop for the next container
StopContainer ==
  /\ pc = "cc_stop"
  /\ \E container \in todo :
       LET cmd == Cmd("stop", container)
       IN \E o \in OutcomesFor(cmd, dry_run) :
            /\ run_command(cmd, dry_run, o)
            /\ IF RunCommandRaises(dry_run, o)
               THEN Raise("OSError", "clean_containers")
               ELSE AfterStop(container, o)
  /\ UNCHANGED <<kept, response, report>>

\* clean_containers, lines 476-477: docker rm for the container just stopped
RemoveContainer ==
  /\ pc = "cc_rm"
  /\ LET cmd == Cmd("rm", cur)
     IN \E o \in OutcomesFor(cmd, dry_run) :
          /\ run_command(cmd, dry_run, o)
          /\ IF RunCommandRaises(dry_run, o)
             THEN Raise("OSError", "clean_containers")
             ELSE IF todo \ {cur} = {}
                  THEN EnterCleanImages
                  ELSE Goto("cc_stop", todo \ {cur}, <<>>, idx)
  /\ UNCHANGED <<kept, response, report>>

\* the for loop of clean_images left after its first image
NextImageBreak(rest) == EnterCleanVolumes

\* clean_images: the for loop goes on with the images left
NextImage(rest) ==
  IF rest = {}
  THEN EnterCleanVolumes
  ELSE Goto("ci_rmi", rest, <<>>, idx)

\* the enumeration not guarded by dry_run
EnumerationAlways(dry) == TRUE

\* clean_images, line 496: `if not self.dry_run`
EnumerationFollows(dry) == ~dry

\* clean_images, lines 486-496: docker rmi -f for the next image; the tag
\* enumeration follows unless this is a dry run
RemoveImage ==
  /\ pc = "ci_rmi"
  /\ \E image \in todo :
       LET cmd == Cmd("rmi", image)
       IN \E o \in OutcomesFor(cmd, dry_run) :
            /\ run_command(cmd, dry_run, o)
            /\ IF RunCommandRaises(dry_run, o)
               THEN Raise("OSError", "clean_images")
               ELSE IF EnumerationFollows(dry_run)
                    THEN Goto("ci_enum", todo, image, idx)
                    ELSE NextImage(todo \ {image})
  /\ UNCHANGED <<kept, response, report>>

\* the lines of `docker images --format {{.Repository}}:{{.Tag}} <repo>`
\* that are not empty
MatchingImages(d, repo) == {r.ref : r \in {x \in d.images : RepositoryOf(x.ref) = repo}}

\* clean_images, lines 497-502: the local tags of the image's base are listed
EnumerateTags ==
  /\ pc = "ci_enum"
  /\ LET cmd == Cmd("images_repo", image_base(cur))
     IN \E o \in OutcomesFor(cmd, FALSE) :
          /\ run_command(cmd, FALSE, o)
          /\ IF RunCommandRaises(FALSE, o)
             THEN Raise("OSError", "clean_images")
             ELSE IF ReturnedZero(FALSE, o) /\ MatchingImages(daemon, cmd.arg) # {}
                  THEN /\ pc' = "ci_tags"
                       /\ tags' = MatchingImages(daemon, cmd.arg)
                       /\ UNCHANGED <<todo, cur, idx, exit_code, exc, raised_in>>
                  ELSE NextImage(todo \ {cur})
  /\ UNCHANGED <<kept, response, report>>

\* clean_images, lines 503-505: docker rmi -f for one enumerated reference
RemoveTag ==
  /\ pc = "ci_tags"
  /\ \E img \in tags :
       LET cmd == Cmd("rmi", img)
       IN \E o \in OutcomesFor(cmd, dry_run) :
            /\ run_command(cmd, dry_run, o)
            /\ IF RunCommandRaises(dry_run, o)
               THEN Raise("OSError", "clean_images")
               ELSE IF tags \ {img} = {}
                    THEN NextImage(todo \ {cur})
                    ELSE /\ tags' = tags \ {img}
                         /\ UNCHANGED <<pc, todo, cur, idx, exit_code, exc, raised_in>>
  /\ UNCHANGED <<kept, response, report>>

\* clean_volumes: the for loop goes on with the volumes left
NextVolume(rest) ==
  IF rest = {}
  THEN EnterCleanNetworks
  ELSE Goto("cv_bare", rest, <<>>, 1)

\* clean_volumes, lines 514-517: docker volume rm for the name as declared
RemoveVolume ==
  /\ pc = "cv_bare"
  /\ \E volume \in todo :
       LET cmd == Cmd("volume_rm", volume)
       IN \E o \in OutcomesFor(cmd, dry_run) :
            /\ run_command(cmd, dry_run, o)
            /\ IF RunCommandRaises(dry_run, o)
               THEN Raise("OSError", "clean_volumes")
               ELSE Goto("cv_prefixed", todo, volume, 1)
  /\ UNCHANGED <<kept, response, report>>

\* clean_volumes, lines 520-523: docker volume rm for one {project}_{volume}
RemoveVolumePrefixed ==
  /\ pc = "cv_prefixed"
  /\ LET cmd == Cmd("volume_rm", Prefixed(project_names[idx], cur))
     IN \E o \in OutcomesFor(cmd, dry_run) :
          /\ run_command(cmd, dry_run, o)
          /\ IF RunCommandRaises(dry_run, o)
             THEN Raise("OSError", "clean_volumes")
             ELSE IF idx < Len(project_names)
                  THEN Goto("cv_prefixed", todo, cur, idx + 1)
                  ELSE NextVolume(todo \ {cur})
  /\ UNCHANGED <<kept, response, report>>

\* clean_networks: the for loop goes on with the networks left
NextNetwork(rest) ==
  IF rest = {}
  THEN EnterCleanComposeProjects
  ELSE Goto("cn_bare", rest, <<>>, 1)

\* clean_networks, lines 532-535: docker network rm for the name as declared
RemoveNetwork ==
  /\ pc = "cn_bare"
  /\ \E network \in todo :
       LET cmd == Cmd("network_rm", network)
       IN \E o \in OutcomesFor(cmd, dry_run) :
            /\ run_command(cmd, dry_run, o)
            /\ IF RunCommandRaises(dry_run, o)
               THEN Raise("OSError", "clean_networks")
               ELSE Goto("cn_prefixed", todo, network, 1)
  /\ UNCHANGED <<kept, response, report>>

\* clean_networks, lines 538-541: docker network rm for one {project}_{network}
RemoveNetworkPrefixed ==
  /\ pc = "cn_prefixed"
  /\ LET cmd == Cmd("network_rm", Prefixed(project_names[idx], cur))
     IN \E o \in OutcomesFor(cmd, dry_run) :
          /\ run_command(cmd, dry_run, o)
          /\ IF RunCommandRaises(dry_run, o)
             THEN Raise("OSError", "clean_networks")
             ELSE IF idx < Len(project_names)
                  THEN Goto("cn_prefixed", todo, cur, idx + 1)
                  ELSE NextNetwork(todo \ {cur})
  /\ UNCHANGED <<kept, response, report>>

\* clean_compose_projects, lines 605-614: compose down -v --remove-orphans
\* for one project
ComposeDown ==
  /\ pc = "compose_down"
  /\ LET cmd == Cmd("down_v", project_names[idx])
     IN \E o \in OutcomesFor(cmd, dry_run) :
          /\ run_command(cmd, dry_run, o)
          /\ IF RunCommandRaises(dry_run, o)
             THEN Raise("OSError", "clean_compose_projects")
             ELSE NextProject("compose_down", "leftover")
  /\ UNCHANGED <<kept, response, report>>

\* clean_leftover_images_by_pattern, lines 545-572: docker images is run,
\* dry run or not, and the rows that match a pattern are kept
ListLeftoverImages ==
  /\ pc = "leftover"
  /\ LET cmd == Cmd("images_ids", <<>>)
         leftover_images == {r \in daemon.images : MatchesPattern(r.ref, patterns)}
     IN \E o \in OutcomesFor(cmd, FALSE) :
          /\ run_command(cmd, FALSE, o)
          /\ IF RunCommandRaises(FALSE, o)
             THEN Raise("OSError", "clean_leftover_images_by_pattern")
             ELSE IF ReturnedZero(FALSE, o) /\ leftover_images # {}
                  THEN Goto("lo_rmi", leftover_images, <<>>, 1)
                  ELSE Goto("dangling", {}, <<>>, 1)
  /\ UNCHANGED <<kept, response, report>>

\* clean_leftover_images_by_pattern, lines 573-575: docker rmi -f <image id>
RemoveLeftoverImage ==
  /\ pc = "lo_rmi"
  /\ \E row \in todo :
       LET cmd == Cmd("rmi", row.id)
       IN \E o \in OutcomesFor(cmd, dry_run) :
            /\ run_command(cmd, dry_run, o)
            /\ IF RunCommandRaises(dry_run, o)
               THEN Raise("OSError", "clean_leftover_images_by_pattern")
               ELSE IF todo \ {row} = {}
                    THEN Goto("dangling", {}, <<>>, 1)
                    ELSE Goto("lo_rmi", todo \ {row}, <<>>, 1)
  /\ UNCHANGED <<kept, response, report>>

\* ------------------------------------------------------ dangling images

Whitespace == {" ", "\t", "\n"}

RECURSIVE LStrip(_)
LStrip(s) == IF s # <<>> /\ Head(s) \in Whitespace THEN LStrip(Tail(s)) ELSE s

RECURSIVE RStrip(_)
RStrip(s) ==
  IF s # <<>> /\ s[Len(s)] \in Whitespace THEN RStrip(SubSeq(s, 1, Len(s) - 1)) ELSE s

\* str.strip()
Strip(s) == RStrip(LStrip(s))

\* what input() can come to: end of input, an interrupt, or a line
PromptOutcomes ==
  <<[kind |-> "EOFError", text |-> <<>>],
    [kind |-> "KeyboardInterrupt", text |-> <<>>],
    [kind |-> "line", text |-> <<"y">>],
    [kind |-> "line", text |-> <<" ","Y","e","s"," ">>],
    [kind |-> "line", text |-> <<"n">>]>>

\* a prompt that takes everything but a plain n for a yes
ConfirmedUnlessRefused(answer) ==
  ~(answer.kind = "line" /\ Lower(Strip(answer.text)) = <<"n">>)

\* response in ['y', 'yes'], after .strip().lower()
Confirmed(answer) ==
  /\ answer.kind = "line"
  /\ Lower(Strip(answer.text)) \in {<<"y">>, <<"y","e","s">>}

\* main without its report: return 0 follows clean_dangling_images
AfterDanglingReturn == Return(0)

\* main, lines 705-712: the report follows in execute mode only
AfterDangling ==
  IF dry_run
  THEN Return(0)
  ELSE Goto("report_containers", {}, <<>>, 1)

\* clean_dangling_images, lines 577-599: in a dry run the prune is only
\* announced; else the user is asked and docker image prune -f runs on y/yes
CleanDanglingImages ==
  /\ pc = "dangling"
  /\ LET cmd == Cmd("prune", <<>>)
     IN IF dry_run
        THEN /\ would_run' = would_run \cup {cmd}
             /\ UNCHANGED <<daemon, faults, executed, nonzero, launch_failed, disturbed, response>>
             /\ AfterDangling
        ELSE \E k \in 1..Len(PromptOutcomes) :
               /\ response' = PromptOutcomes[k]
               /\ IF Confirmed(PromptOutcomes[k])
                  THEN \E o \in OutcomesFor(cmd, FALSE) :
                         /\ run_command(cmd, FALSE, o)
                         /\ IF RunCommandRaises(FALSE, o)
                            THEN Raise("OSError", "clean_dangling_images")
                            ELSE AfterDangling
                  ELSE /\ UNCHANGED io
                       /\ AfterDangling
  /\ UNCHANGED <<kept, report>>

\* ------------------------------------------------------------------ report

\* the rows of a listing that came back with exit 0, filtered by pattern;
\* none when the call failed
Leftover(rows, o, pats) ==
  IF ReturnedZero(FALSE, o)
  THEN {r \in rows : MatchesPattern(IF "ref" \in DOMAIN r THEN r.ref ELSE r.name, pats)}
  ELSE {}

\* get_leftover_containers, lines 284-307
GetLeftoverContainers ==
  /\ pc = "report_containers"
  /\ LET cmd == Cmd("ps", <<>>)
     IN \E o \in OutcomesFor(cmd, FALSE) :
          /\ run_command(cmd, FALSE, o)
          /\ IF RunCommandRaises(FALSE, o)
             THEN Raise("OSError", "print_report") /\ UNCHANGED report
             ELSE /\ report' = [report EXCEPT !.containers = Leftover(daemon.containers, o, reporter_patterns)]
                  /\ Goto("report_images", {}, <<>>, 1)
  /\ UNCHANGED <<kept, response>>

\* get_leftover_images, lines 309-331
GetLeftoverImages ==
  /\ pc = "report_images"
  /\ LET cmd == Cmd("images", <<>>)
     IN \E o \in OutcomesFor(cmd, FALSE) :
          /\ run_command(cmd, FALSE, o)
          /\ IF RunCommandRaises(FALSE, o)
             THEN Raise("OSError", "print_report") /\ UNCHANGED report
             ELSE /\ report' = [report EXCEPT !.images = Leftover(daemon.images, o, reporter_patterns)]
                  /\ Goto("report_volumes", {}, <<>>, 1)
  /\ UNCHANGED <<kept, response>>

\* get_leftover_volumes, lines 333-355
GetLeftoverVolumes ==
  /\ pc = "report_volumes"
  /\ LET cmd == Cmd("volume_ls", <<>>)
     IN \E o \in OutcomesFor(cmd, FALSE) :
          /\ run_command(cmd, FALSE, o)
          /\ IF RunCommandRaises(FALSE, o)
             THEN Raise("OSError", "print_report") /\ UNCHANGED report
             ELSE /\ report' = [report EXCEPT !.volumes = Leftover(daemon.volumes, o, reporter_patterns)]
                  /\ Goto("report_networks", {}, <<>>, 1)
  /\ UNCHANGED <<kept, response>>

\* get_leftover_networks, lines 357-379
GetLeftoverNetworks ==
  /\ pc = "report_networks"
  /\ LET cmd == Cmd("network_ls", <<>>)
     IN \E o \in OutcomesFor(cmd, FALSE) :
          /\ run_command(cmd, FALSE, o)
          /\ IF RunCommandRaises(FALSE, o)
             THEN Raise("OSError", "print_report") /\ UNCHANGED report
             ELSE /\ report' = [report EXCEPT !.networks = Leftover(daemon.networks, o, reporter_patterns)]
                  /\ Goto("report_summary", {}, <<>>, 1)
  /\ UNCHANGED <<kept, response>>

\* print_report, lines 445-455, and main's return 0
PrintSummary ==
  /\ pc = "report_summary"
  /\ report' = [report EXCEPT !.total_items =
                  Cardinality(report.containers) + Cardinality(report.images)
                    + Cardinality(report.volumes) + Cardinality(report.networks)]
  /\ Return(0)
  /\ UNCHANGED <<kept, io, response>>

\* ------------------------------------------------------------------ sweeps

\* what is kept of a finished sweep
Summary ==
  [dry_run |-> dry_run, exit_code |-> exit_code,
   containers |-> ex.containers, images |-> ex.images,
   volumes |-> ex.volumes, networks |-> ex.networks,
   would_run |-> would_run, start_daemon |-> start_daemon,
   undisturbed |-> (daemonUp /\ ~disturbed)]

Terminated == pc \in {"done", "crashed"}

\* the process has ended and the script is started again, on the same files
\* and on the daemon as the last sweep left it
StartAgain ==
  /\ pc = "done"
  /\ run = 1
  /\ run' = 2
  /\ prev' = Append(prev, Summary)
  /\ dry_run' \in BOOLEAN
  /\ daemonUp' \in BOOLEAN
  /\ start_daemon' = daemon
  /\ pc' = "parse"
  /\ base_config' = PyNone
  /\ runtime_config' = PyNone
  /\ ex' = NewExtractor
  /\ extracted' = {}
  /\ todo' = {}
  /\ cur' = <<>>
  /\ idx' = 1
  /\ tags' = {}
  /\ exit_code' = -1
  /\ exc' = "none"
  /\ raised_in' = "none"
  /\ executed' = {}
  /\ would_run' = {}
  /\ nonzero' = {}
  /\ launch_failed' = FALSE
  /\ disturbed' = FALSE
  /\ response' = NoResponse
  /\ report' = NoReport
  /\ UNCHANGED <<files, daemon, faults, reporter_patterns, sizes, launcher>>

Init ==
  /\ \E i \in 1..Len(BaseFiles) : baseFile = BaseFiles[i]
  /\ \E i \in 1..Len(RuntimeFiles) : runtimeFile = RuntimeFiles[i]
  /\ \E i \in 1..Len(DaemonInits) : daemon = DaemonInits[i] /\ start_daemon = DaemonInits[i]
  /\ daemonUp \in BOOLEAN
  /\ dry_run \in BOOLEAN
  /\ faults = 0
  /\ run = 1
  /\ pc = "parse"
  /\ base_config = PyNone
  /\ runtime_config = PyNone
  /\ ex = NewExtractor
  /\ extracted = {}
  /\ todo = {}
  /\ cur = <<>>
  /\ idx = 1
  /\ tags = {}
  /\ exit_code = -1
  /\ exc = "none"
  /\ raised_in = "none"
  /\ executed = {}
  /\ would_run = {}
  /\ nonzero = {}
  /\ launch_failed = FALSE
  /\ disturbed = FALSE
  /\ response = NoResponse
  /\ report = NoReport
  /\ reporter_patterns = DockerReporter(PyList(patterns))
  /\ prev = <<>>
  /\ NoSizes
  /\ NoLauncher

Next ==
  \/ ParseComposeFiles
  \/ ExtractAll
  \/ GetMergedConfig
  \/ BringDown
  \/ StopContainer
  \/ RemoveContainer
  \/ RemoveImage
  \/ EnumerateTags
  \/ RemoveTag
  \/ RemoveVolume
  \/ RemoveVolumePrefixed
  \/ RemoveNetwork
  \/ RemoveNetworkPrefixed
  \/ ComposeDown
  \/ ListLeftoverImages
  \/ RemoveLeftoverImage
  \/ CleanDanglingImages
  \/ GetLeftoverContainers
  \/ GetLeftoverImages
  \/ GetLeftoverVolumes
  \/ GetLeftoverNetworks
  \/ PrintSummary
  \/ StartAgain

Spec == Init /\ [][Next]_vars

\* ------------------------------------------------------------- properties

\* every command of this sweep, run or announced
Attempted == executed \cup would_run

\* the sweep came to its cleanup steps: both of the discovery's ways out,
\* return 1 and an exception of the extraction, are excluded
CleanupReached ==
  /\ ~NothingParsed(base_config, runtime_config)
  /\ pc \notin {"parse", "extract", "merged"}
  /\ raised_in \notin {"extract_all", "extract_from_merged"}

\* main's positions in the order it passes them
PcOrder ==
  <<"parse", "extract", "merged", "down", "cc_stop", "cc_rm", "ci_rmi",
    "ci_enum", "ci_tags", "cv_bare", "cv_prefixed", "cn_bare", "cn_prefixed",
    "compose_down", "leftover", "lo_rmi", "dangling", "report_containers",
    "report_images", "report_volumes", "report_networks", "report_summary">>

Rank(p) == CHOOSE i \in 1..Len(PcOrder) : PcOrder[i] = p

\* main has left position p behind
Past(p) ==
  \/ pc = "done" /\ exit_code = 0
  \/ pc \notin {"done", "crashed"} /\ Rank(pc) > Rank(p)

\* the sweep before this one had the ResourceSet of this one
SameResourceSet(p) ==
  /\ p.containers = ex.containers
  /\ p.images = ex.images
  /\ p.volumes = ex.volumes
  /\ p.networks = ex.networks

\* the daemon's listings without the dangling images
Tagged(d) == [d EXCEPT !.images = {r \in @ : r.ref # s_dangling}]

\* a second execute-mode sweep has ended after a first that returned 0
SecondExecuteSweepEnded ==
  /\ run = 2
  /\ Terminated
  /\ CleanupReached
  /\ ~dry_run
  /\ ~prev[1].dry_run
  /\ prev[1].exit_code = 0
  /\ SameResourceSet(prev[1])

C2_DryRunMutatesNothing ==
  dry_run => daemon = start_daemon /\ Mutating(executed) = {}

\* C2's case: a dry run over a full daemon ended after announcing removals
C2_Witness ==
  /\ dry_run
  /\ pc = "done"
  /\ exit_code = 0
  /\ daemonUp
  /\ start_daemon = FullDaemon
  /\ {Cmd("rm", s_app1), Cmd("rmi", s_app_10), Cmd("volume_rm", s_juno_data),
      Cmd("down_v", s_juno), Cmd("rmi", s_i3), Cmd("prune", <<>>)} \subseteq would_run

\* an execute-mode sweep has returned 0 after a dry run on the same manifests,
\* the same daemon state and the same ResourceSet
ExecuteAfterDryRun ==
  /\ run = 2
  /\ pc = "done"
  /\ exit_code = 0
  /\ ~dry_run
  /\ prev[1].dry_run
  /\ prev[1].exit_code = 0
  /\ prev[1].start_daemon = start_daemon
  /\ SameResourceSet(prev[1])

\* C3 as stated: the commands the dry run announced are the daemon-mutating
\* commands the execute-mode sweep issued.
C3_AnnouncedEqualsIssued ==
  ExecuteAfterDryRun => prev[1].would_run = Mutating(executed)

\* the itemized commands among cmds: the project-level downs, stop and rm,
\* volume and network removals, and rmi of a declared reference
Itemized(cmds) ==
  {c \in cmds : \/ c.op \in {"down", "down_v", "stop", "rm", "volume_rm", "network_rm"}
                \/ c.op = "rmi" /\ c.arg \in ex.images}

\* the itemized commands of a ResourceSet
ItemizedCommands ==
  {Cmd(op, p) : op \in {"down", "down_v"}, p \in {s_juno, s_helios}}
    \cup {Cmd(op, c) : op \in {"stop", "rm"}, c \in ex.containers}
    \cup {Cmd("rmi", i) : i \in ex.images}
    \cup UNION {{Cmd("volume_rm", v), Cmd("volume_rm", Prefixed(s_juno, v)),
                 Cmd("volume_rm", Prefixed(s_helios, v))} : v \in ex.volumes}
    \cup UNION {{Cmd("network_rm", n), Cmd("network_rm", Prefixed(s_juno, n)),
                 Cmd("network_rm", Prefixed(s_helios, n))} : n \in ex.networks}

\* C3, amended: the dry run announces exactly the itemized commands that the
\* execute-mode sweep issues (downs, stop, rm, rmi of each declared
\* reference, volume and network removals); the other commands differ: the
\* rmi of enumerated tags is issued but never announced, the prune is always
\* announced but issued only on confirmation, and the rmi by image id follows
\* the listing each sweep reads.
C3_AnnouncedItemizedEqualsIssuedItemized ==
  ExecuteAfterDryRun =>
    /\ Itemized(prev[1].would_run) = ItemizedCommands
    /\ Itemized(executed) = ItemizedCommands
    /\ Cmd("prune", <<>>) \in prev[1].would_run
    /\ \A c \in prev[1].would_run \cup Mutating(executed) :
         c \notin ItemizedCommands => c.op \in {"rmi", "prune"}

\* C3's case: announced and issued commands differ: an enumerated tag was
\* removed without having been announced
C3_Witness ==
  /\ ExecuteAfterDryRun
  /\ ex.images = {s_app_10}
  /\ ex.volumes # {}
  /\ Cmd("rmi", s_app_latest) \in executed \ prev[1].would_run
  /\ Cmd("rmi", s_app_10) \in executed \cap prev[1].would_run

\* C4 as stated: in a dry run no read-only daemon query is executed during
\* cleanup, neither an image listing nor a tag enumeration.
C4_DryRunQueriesNothing ==
  dry_run => \A c \in executed : c.op \notin {"images_repo", "images_ids"}

\* C4, amended: in a dry run the tag enumeration of clean_images is never
\* executed; the image listing of clean_leftover_images_by_pattern is
\* executed, and it is the only call that cleanup executes.
C4_DryRunSkipsEnumerationOnly ==
  dry_run =>
    /\ \A c \in executed : c.op \in {"config", "images_ids"}
    /\ Past("leftover") /\ CleanupReached => Cmd("images_ids", <<>>) \in executed

\* C4's case: a dry run with declared images has passed clean_images and
\* has run the listing of the leftover step
C4_Witness ==
  /\ dry_run
  /\ pc = "done"
  /\ ex.images # {}
  /\ Cmd("rmi", s_app_10) \in would_run
  /\ Cmd("images_ids", <<>>) \in executed

\* C5: when neither manifest file exists the sweep returns 1 and makes no
\* daemon call of any kind, in both modes.
C5_NoManifestNoCall ==
  (~Exists(baseFile) /\ ~Exists(runtimeFile)) =>
    /\ executed = {} /\ would_run = {}
    /\ daemon = start_daemon
    /\ pc \in {"parse", "done"}
    /\ pc = "done" => exit_code = 1

\* C5's case: neither file exists and the sweep has ended, the daemon full
C5_Witness ==
  /\ ~Exists(baseFile) /\ ~Exists(runtimeFile)
  /\ pc = "done"
  /\ exit_code = 1
  /\ daemonUp
  /\ start_daemon = FullDaemon

\* the file is absent or cannot be parsed
AbsentOrUnparseable(file) == file.kind \in {"missing", "broken"}

\* C6 as stated: the exit code is 1 exactly when both manifest files are
\* absent or unparseable; otherwise the sweep ends with 0.
C6_ExitCodeOneIffNoManifest ==
  Terminated =>
    (exit_code = 1 <=> (AbsentOrUnparseable(baseFile) /\ AbsentOrUnparseable(runtimeFile)))

\* the calls an execute-mode sweep owes for its ResourceSet: the itemized
\* ones, the tag enumerations, the image listing and the four of the report
RequiredCalls ==
  ItemizedCommands
    \cup {Cmd("images_repo", image_base(i)) : i \in ex.images}
    \cup {Cmd("images_ids", <<>>)}
    \cup {Cmd(op, <<>>) : op \in {"ps", "images", "volume_ls", "network_ls"}}

\* C7: in execute mode, whichever calls return a nonzero exit, the sweep
\* issues every step (removals, project-level downs, report) and returns 0.
C7_NonzeroExitsStopNothing ==
  (Terminated /\ CleanupReached /\ ~dry_run /\ ~launch_failed) =>
    /\ pc = "done"
    /\ exit_code = 0
    /\ RequiredCalls \subseteq executed
    /\ report.total_items >= 0

\* C7's case: the daemon was unreachable, every call to it returned nonzero,
\* and the sweep ended with 0 after all its steps
C7_Witness ==
  /\ pc = "done"
  /\ exit_code = 0
  /\ ~dry_run
  /\ ~daemonUp
  /\ ex.containers # {} /\ ex.images # {} /\ ex.volumes # {} /\ ex.networks # {}
  /\ {c \in executed : c.op # "config"} \subseteq nonzero
  /\ RequiredCalls \subseteq executed

\* C8 as stated: no cleanup operation of the engine lets an exception out.
C8_NoCleanupOperationRaises ==
  raised_in \notin {"clean_containers", "clean_images", "clean_volumes",
                    "clean_networks", "clean_compose_projects"}

\* the three removal attempts of one volume or network identifier
ThreeAttempts(op, name) ==
  {Cmd(op, name), Cmd(op, Prefixed(s_juno, name)), Cmd(op, Prefixed(s_helios, name))}

\* C9: for every volume and network identifier of the ResourceSet, removal
\* is attempted for the bare name, juno_<name> and helios_<name>, whatever
\* the earlier attempts returned, in both modes.
C9_ThreeAttemptsEach ==
  /\ pc \in {"cv_bare", "cv_prefixed"} =>
       \A v \in ex.volumes \ todo : ThreeAttempts("volume_rm", v) \subseteq Attempted
  /\ pc = "cv_prefixed" => Cmd("volume_rm", cur) \in Attempted
  /\ Past("cv_prefixed") =>
       \A v \in ex.volumes : ThreeAttempts("volume_rm", v) \subseteq Attempted
  /\ pc \in {"cn_bare", "cn_prefixed"} =>
       \A n \in ex.networks \ todo : ThreeAttempts("network_rm", n) \subseteq Attempted
  /\ pc = "cn_prefixed" => Cmd("network_rm", cur) \in Attempted
  /\ Past("cn_prefixed") =>
       \A n \in ex.networks : ThreeAttempts("network_rm", n) \subseteq Attempted
  /\ (Terminated /\ CleanupReached /\ ~launch_failed) =>
       /\ \A v \in ex.volumes : ThreeAttempts("volume_rm", v) \subseteq Attempted
       /\ \A n \in ex.networks : ThreeAttempts("network_rm", n) \subseteq Attempted

\* C9's case: the bare-name removal failed, the juno_ removal succeeded, and
\* the helios_ removal was still made; the same for a network
C9_Witness ==
  /\ pc = "done"
  /\ ~dry_run
  /\ Cmd("volume_rm", s_data) \in nonzero
  /\ Cmd("volume_rm", s_juno_data) \in executed \ nonzero
  /\ Cmd("volume_rm", Prefixed(s_helios, s_data)) \in nonzero
  /\ Cmd("network_rm", s_net) \in nonzero
  /\ Cmd("network_rm", s_juno_net) \in executed \ nonzero
  /\ Cmd("network_rm", Prefixed(s_helios, s_net)) \in executed

\* C10: for every container of the ResourceSet a stop is issued and then a
\* remove, in that order, and the remove is issued whether the stop
\* succeeded or failed.
C10_StopThenRemove ==
  /\ \A c \in ex.containers : Cmd("rm", c) \in Attempted => Cmd("stop", c) \in Attempted
  /\ pc = "cc_rm" => Cmd("stop", cur) \in Attempted
  /\ pc \in {"cc_stop", "cc_rm"} =>
       \A c \in ex.containers \ todo : {Cmd("stop", c), Cmd("rm", c)} \subseteq Attempted
  /\ Past("cc_rm") =>
       \A c \in ex.containers : {Cmd("stop", c), Cmd("rm", c)} \subseteq Attempted
  /\ (Terminated /\ CleanupReached /\ ~launch_failed) =>
       \A c \in ex.containers : {Cmd("stop", c), Cmd("rm", c)} \subseteq Attempted

\* C10's case: the stop of app1 failed and its remove was issued and succeeded
C10_Witness ==
  /\ ~dry_run
  /\ Cmd("stop", s_app1) \in nonzero
  /\ Cmd("rm", s_app1) \in executed \ nonzero

\* the call counted as failed in this step
FailedNow(cmd) == cmd \notin nonzero /\ cmd \in nonzero'

\* the removals issued in this step
IssuedNow == {c \in executed' : c.op = "rmi"} \ {c \in executed : c.op = "rmi"}

\* one step of clean_images in execute mode is as C11 says
C11_Step ==
  ~dry_run =>
    /\ (pc = "ci_rmi" /\ pc' # "ci_rmi") =>
         \E image \in todo :
           /\ Cmd("rmi", image) \in executed'
           /\ (pc' = "ci_enum" /\ cur' = image) \/ pc' = "crashed"
    /\ pc = "ci_enum" =>
         LET cmd == Cmd("images_repo",
                        IF FirstIndex(cur, ":") = 0
                        THEN cur ELSE SubSeq(cur, 1, FirstIndex(cur, ":") - 1))
         IN /\ cmd \in executed'
            /\ IssuedNow = {}
            /\ pc' = "ci_tags" =>
                 /\ ~FailedNow(cmd)
                 /\ tags' = MatchingImages(daemon, cmd.arg)
                 /\ cur' = cur
            /\ pc' \notin {"ci_tags", "crashed"} =>
                 FailedNow(cmd) \/ cmd \in nonzero \/ MatchingImages(daemon, cmd.arg) = {}
            /\ FailedNow(cmd) => pc' # "ci_tags"
    /\ pc = "ci_tags" =>
         \E img \in tags :
           /\ Cmd("rmi", img) \in executed'
           /\ \/ pc' = "ci_tags" /\ tags' = tags \ {img} /\ tags' # {}
              \/ pc' = "crashed"
              \/ pc' \notin {"ci_tags", "crashed"} /\ tags = {img}

\* C11: in execute mode clean_images issues, for every image of the
\* ResourceSet, a force-remove of the full reference, then a tag enumeration
\* on the text before the first ':' (the whole reference when it has none),
\* then a force-remove of every reference the enumeration returned, and of
\* none when the enumeration failed.
C11_RemoveEnumerateRemove == [][C11_Step]_vars

\* C11's case: the declared repo/app:1.0 was removed, repo/app enumerated,
\* and the tag repo/app:latest, declared nowhere, removed as well
C11_Witness ==
  /\ ~dry_run
  /\ pc = "cv_bare"
  /\ ex.images = {s_app_10}
  /\ Cmd("rmi", s_app_10) \in executed
  /\ Cmd("images_repo", image_base(s_app_10)) \in executed \ nonzero
  /\ Cmd("rmi", s_app_latest) \in executed
  /\ s_app_latest \notin {r.ref : r \in daemon.images}

\* the itemized removals of the ResourceSet's containers, images, volumes
\* and networks
ItemizedRemovals ==
  {c \in ItemizedCommands : c.op \in {"stop", "rm", "rmi", "volume_rm", "network_rm"}}

\* the two project-level downs with volume removal
ProjectDowns == {Cmd("down_v", s_juno), Cmd("down_v", s_helios)}

\* the downs in their order: each is issued when all itemized removals have
\* been, and both have been once clean_compose_projects is over
C12_DownsLast ==
  /\ \A c \in ProjectDowns : c \in Attempted => ItemizedRemovals \subseteq Attempted
  /\ Cmd("down_v", s_helios) \in Attempted => Cmd("down_v", s_juno) \in Attempted
  /\ Past("compose_down") => ProjectDowns \subseteq Attempted
  /\ (Terminated /\ CleanupReached /\ ~launch_failed) => ProjectDowns \subseteq Attempted

\* a down is issued in one step only, by clean_compose_projects
C12_DownsOnce ==
  \A c \in ProjectDowns :
    /\ (c \notin Attempted /\ c \in Attempted') => pc = "compose_down"
    /\ (pc = "compose_down" /\ c \in Attempted) =>
         (Attempted' \cap ProjectDowns = ProjectDowns /\ pc' # "compose_down")
           \/ pc' = "crashed"

\* C12: in every sweep that passes the manifest check and that no exception
\* ends, `compose down -v --remove-orphans` over both manifest files is
\* issued (announced in a dry run) once for juno and once for helios, after
\* all itemized removals of containers, images, volumes and networks,
\* whether these succeeded or not.
C12_ProjectDownsAfterItemized == []C12_DownsLast /\ [][C12_DownsOnce]_vars

\* C12's case: itemized removals failed, by the daemon's refusal and for
\* want of a target, and both downs were issued after them, one succeeding
C12_Witness ==
  /\ pc = "leftover"
  /\ ~dry_run
  /\ daemonUp
  /\ {Cmd("stop", s_app1), Cmd("volume_rm", s_data), Cmd("network_rm", s_net)} \subseteq nonzero
  /\ ItemizedRemovals \subseteq executed
  /\ Cmd("down_v", s_juno) \in executed \ nonzero
  /\ Cmd("down_v", s_helios) \in executed

\* the scenario of C13: the base manifest declares app1, repo/app:1.0 and
\* data, the overlay declares nothing, both config resolutions have failed
C13_Scenario ==
  /\ baseFile = OkFile(T_base)
  /\ runtimeFile = OkFile(T_plain)
  /\ {Cmd("config", s_juno), Cmd("config", s_helios)} \subseteq nonzero

\* C13: in that scenario the union sets are containers {app1}, images
\* {repo/app:1.0}, volumes {data}, networks {}, every merged shadow set is
\* empty, and the execute-mode cleanup issues stop and rm of app1, rmi of
\* repo/app:1.0, the tag enumeration of repo/app, and volume rm of data,
\* juno_data and helios_data.
C13_EndToEnd ==
  C13_Scenario =>
    /\ ex.containers = {s_app1}
    /\ ex.images = {s_app_10}
    /\ ex.volumes = {s_data}
    /\ ex.networks = {}
    /\ ex.containers_merged = {} /\ ex.images_merged = {}
    /\ ex.volumes_merged = {} /\ ex.networks_merged = {}
    /\ (~dry_run /\ Terminated /\ ~launch_failed) =>
         /\ pc = "done"
         /\ {Cmd("stop", s_app1), Cmd("rm", s_app1), Cmd("rmi", s_app_10),
             Cmd("images_repo", <<"r","e","p","o","/","a","p","p">>),
             Cmd("volume_rm", s_data), Cmd("volume_rm", s_juno_data),
             Cmd("volume_rm", <<"h","e","l","i","o","s","_","d","a","t","a">>)}
              \subseteq executed

\* C13's case: the scenario's sweep in execute mode has ended, over a daemon
\* that held app1, repo/app:1.0 and juno_data
C13_Witness ==
  /\ C13_Scenario
  /\ ~dry_run
  /\ pc = "done"
  /\ exit_code = 0
  /\ start_daemon = FullDaemon
  /\ Cmd("volume_rm", s_juno_data) \in executed \ nonzero

\* ------------------------------------------------- the extractor on its own

\* One ComposeResourceExtractor given trees in any order, any number of
\* times, from either source; an exception of _extract_from_config is
\* caught by the caller and the extractor is used again.
InitExtractor ==
  /\ baseFile = MissingFile
  /\ runtimeFile = MissingFile
  /\ daemon = EmptyDaemon
  /\ start_daemon = EmptyDaemon
  /\ daemonUp = TRUE
  /\ dry_run = FALSE
  /\ faults = 0
  /\ run = 1
  /\ pc = "extract"
  /\ base_config = PyNone
  /\ runtime_config = PyNone
  /\ ex = NewExtractor
  /\ extracted = {}
  /\ todo = {}
  /\ cur = <<>>
  /\ idx = 1
  /\ tags = {}
  /\ exit_code = -1
  /\ exc = "none"
  /\ raised_in = "none"
  /\ executed = {}
  /\ would_run = {}
  /\ nonzero = {}
  /\ launch_failed = FALSE
  /\ disturbed = FALSE
  /\ response = NoResponse
  /\ report = NoReport
  /\ reporter_patterns = DockerReporter(PyList(patterns))
  /\ prev = <<>>
  /\ NoSizes
  /\ NoLauncher

\* self._extract_from_config(config, source)
ExtractorCall(config, source) ==
  /\ IF ExtractRaises(config)
     THEN /\ exc' = "AttributeError"
          /\ UNCHANGED <<ex, extracted>>
     ELSE /\ ex' = extract_from_config(ex, config, source)
          /\ extracted' = extracted \cup {<<IndexOf(config), source>>}
          /\ exc' = "none"
  /\ UNCHANGED <<files, io, sweep, base_config, runtime_config, response, report,
                 pc, todo, cur, idx, tags, exit_code, raised_in>>

\* extract_all's call, lines 170-172
ExtractIndependent == \E i \in 1..Len(Trees) : ExtractorCall(Trees[i], "independent")

\* extract_from_merged, lines 174-176
ExtractMerged == \E i \in 1..Len(Trees) : ExtractorCall(Trees[i], "merged")

NextExtractor ==
  \/ ExtractIndependent
  \/ ExtractMerged

ExtractorSpec == InitExtractor /\ [][NextExtractor]_vars

\* C14: after any sequence of independent and merged extractions, each of
\* the four union sets is the union of its independent and its merged
\* shadow set.
C14_UnionOfShadows ==
  /\ ex.containers = ex.containers_independent \cup ex.containers_merged
  /\ ex.images = ex.images_independent \cup ex.images_merged
  /\ ex.volumes = ex.volumes_independent \cup ex.volumes_merged
  /\ ex.networks = ex.networks_independent \cup ex.networks_merged

\* C14's case: trees were extracted from both sources, the shadow sets
\* differ, and an extraction has raised in between
C14_Witness ==
  /\ \E p \in extracted : p[2] = "independent"
  /\ \E p \in extracted : p[2] = "merged"
  /\ ex.images_independent \ ex.images_merged # {}
  /\ ex.images_merged \ ex.images_independent # {}
  /\ ex.containers_independent = {} /\ ex.containers_merged # {}
  /\ ex.networks_merged = {} /\ ex.networks_independent # {}
  /\ exc = "AttributeError"

\* the union sets and the shadow sets count a name once, from whichever
\* sources it came
C15_OneEntry ==
  /\ Cardinality(ex.containers) + Cardinality(ex.containers_independent \cap ex.containers_merged)
       = Cardinality(ex.containers_independent) + Cardinality(ex.containers_merged)
  /\ Cardinality(ex.images) + Cardinality(ex.images_independent \cap ex.images_merged)
       = Cardinality(ex.images_independent) + Cardinality(ex.images_merged)
  /\ Cardinality(ex.volumes) + Cardinality(ex.volumes_independent \cap ex.volumes_merged)
       = Cardinality(ex.volumes_independent) + Cardinality(ex.volumes_merged)
  /\ Cardinality(ex.networks) + Cardinality(ex.networks_independent \cap ex.networks_merged)
       = Cardinality(ex.networks_independent) + Cardinality(ex.networks_merged)
  /\ \A p \in extracted : extract_from_config(ex, Trees[p[1]], p[2]) = ex

\* a tree extracted before is extracted again
C15_AgainStep == (extracted' = extracted /\ exc' = "none") => ex' = ex

\* C15: a name declared both in a source manifest and in a merged view, or
\* in the merged views of both projects, is in the union set once, and
\* extracting a tree again leaves every set as it was.
C15_DuplicateProvenance == []C15_OneEntry /\ [][C15_AgainStep]_vars

\* C15's case: app1 and data came from the base manifest and from the
\* merged view, and other trees were extracted as well
C15_Witness ==
  /\ {<<IndexOf(T_base), "independent">>, <<IndexOf(T_merged), "merged">>,
      <<IndexOf(T_net), "independent">>} \subseteq extracted
  /\ s_app1 \in ex.containers_independent \cap ex.containers_merged
  /\ s_data \in ex.volumes_independent \cap ex.volumes_merged
  /\ ex.containers = {s_app1}
  /\ ex.volumes = {s_data}

\* what each tree of Trees declares, read off the tree by hand
DeclaredIn(i) ==
  CASE i = 1 -> [containers |-> {s_app1}, images |-> {s_app_10},
                 volumes |-> {s_data}, networks |-> {}]
    [] i = 2 -> [containers |-> {}, images |-> {}, volumes |-> {}, networks |-> {}]
    [] i = 3 -> [containers |-> {}, images |-> {s_cache}, volumes |-> {},
                 networks |-> {s_net}]
    [] i = 4 -> [containers |-> {}, images |-> {}, volumes |-> {s_data}, networks |-> {}]
    [] i = 5 -> [containers |-> {s_app1}, images |-> {s_app_latest},
                 volumes |-> {s_data}, networks |-> {s_net}]

\* the manifest trees main hands to the extractor: those of the files that
\* parsed to something
IndependentSources ==
  {<<IndexOf(f.tree), "independent">> :
     f \in {g \in {baseFile, runtimeFile} : g.kind = "ok" /\ g.tree # PyNone}}

\* a merged-config resolution of this sweep has not returned nonzero
SomeConfigAnswered ==
  \E p \in {s_juno, s_helios} : Cmd("config", p) \in executed \ nonzero

\* the extraction phase of this sweep is over
ExtractionOver ==
  \/ pc \notin {"parse", "extract", "merged", "done", "crashed"}
  \/ Terminated /\ CleanupReached

\* C16: after the extraction phase each union set holds exactly what the
\* base tree, the overlay tree and the available merged trees declare:
\* container_name values, image values and cache_from entries, and the keys
\* of the top-level volumes and networks mappings.
C16_ExactlyTheDeclared ==
  ExtractionOver =>
    /\ IndependentSources \subseteq extracted
    /\ extracted \subseteq IndependentSources \cup {<<5, "merged">>}
    /\ (\E p \in extracted : p[2] = "merged") => SomeConfigAnswered
    /\ (SomeConfigAnswered /\ ~disturbed) => \E p \in extracted : p[2] = "merged"
    /\ ex.containers = UNION {DeclaredIn(p[1]).containers : p \in extracted}
    /\ ex.images = UNION {DeclaredIn(p[1]).images : p \in extracted}
    /\ ex.volumes = UNION {DeclaredIn(p[1]).volumes : p \in extracted}
    /\ ex.networks = UNION {DeclaredIn(p[1]).networks : p \in extracted}

\* C16's case: base, overlay and a merged tree were extracted; the overlay's
\* services declare no container but a build cache
C16_Witness ==
  /\ pc = "down"
  /\ extracted = {<<1, "independent">>, <<3, "independent">>, <<5, "merged">>}
  /\ ex.containers = {s_app1}
  /\ ex.images = {s_app_10, s_cache, s_app_latest}
  /\ ex.networks = {s_net}

\* the project whose merged config the loop of main fetches next
FetchedProject == IF idx = 1 THEN s_juno ELSE s_helios

\* one iteration of the merged-config loop is as C17 says
C17_Step ==
  pc = "merged" =>
    LET cmd == Cmd("config", FetchedProject)
        failed == faults' # faults \/ FailedNow(cmd) \/ launch_failed' # launch_failed
    IN /\ executed' # executed =>
            /\ baseFile.kind # "missing" /\ runtimeFile.kind # "missing"
            /\ executed' = executed \cup {cmd}
       /\ executed' = executed =>
            /\ baseFile.kind = "missing" \/ runtimeFile.kind = "missing"
            /\ ex' = ex
       /\ failed => ex' = ex /\ exc' = "none" /\ pc' # "crashed"
       /\ pc' # "crashed" => IF idx = 1 THEN pc' = "merged" /\ idx' = 2 ELSE pc' = "down"
       /\ pc' = "crashed" => raised_in' = "extract_from_merged" /\ ~failed
       /\ daemon' = daemon

\* merged configs are fetched only with both files there, and a sweep that
\* no exception ended has run its whole cleanup on what was extracted
C17_Sweep ==
  /\ (\E c \in executed : c.op = "config") =>
       baseFile.kind # "missing" /\ runtimeFile.kind # "missing"
  /\ (Terminated /\ CleanupReached /\ raised_in = "none") =>
       /\ pc = "done" /\ exit_code = 0
       /\ ~dry_run => RequiredCalls \subseteq executed
       /\ dry_run => ItemizedCommands \subseteq would_run

\* C17: the merged-config fetch calls the daemon only when both manifest
\* files exist; a nonzero exit, a failed launch or unparseable output gives
\* no merged tree and raises nothing; the sweep goes on to the other
\* project and through the whole cleanup with what was extracted.
C17_FetchFailureIsNotFatal == []C17_Sweep /\ [][C17_Step]_vars

\* C17's case: the fetch for one project could not be launched, the fetch
\* for the other returned nonzero, and the sweep ran its cleanup on the
\* resources of the manifests and returned 0
C17_Witness ==
  /\ pc = "done"
  /\ exit_code = 0
  /\ ~dry_run
  /\ launch_failed
  /\ Cmd("config", s_juno) \in executed \ nonzero
  /\ Cmd("config", s_helios) \in nonzero
  /\ ex.containers = {s_app1}
  /\ ex.images = {s_app_10, s_cache}
  /\ ex.images_merged = {}
  /\ {Cmd("rm", s_app1), Cmd("rmi", s_cache), Cmd("network_rm", s_juno_net)} \subseteq executed

\* one manifest is missing, unreadable or broken, and the other parses
OneManifestParses ==
  \/ AbsentOrUnparseable(baseFile) /\ runtimeFile.kind = "ok"
  \/ AbsentOrUnparseable(runtimeFile) /\ baseFile.kind = "ok"

\* C18 as stated: a manifest that is missing, unreadable or broken parses to
\* nothing without raising, and when the other manifest parses, the sweep
\* goes on and cleans up the resources of the manifest that parsed.
C18_OtherManifestIsCleaned ==
  (OneManifestParses /\ Terminated /\ ~launch_failed) =>
    /\ raised_in # "parse_compose_file"
    /\ pc = "done"
    /\ exit_code = 0
    /\ ItemizedCommands \subseteq Attempted

\* ---------------------------------------------- the cleanup on its own

\* the trees _extract_from_config reads without raising
Extractable == {i \in 1..Len(Trees) : ~ExtractRaises(Trees[i])}

\* main from line 668 on, given an extractor that two extractions filled,
\* each from either source, with the daemon answering every call
InitCleanup ==
  /\ baseFile = OkFile(T_base)
  /\ runtimeFile \in {MissingFile, OkFile(T_plain)}
  /\ \E i \in 1..Len(DaemonInits) : daemon = DaemonInits[i] /\ start_daemon = DaemonInits[i]
  /\ daemonUp = TRUE
  /\ dry_run \in BOOLEAN
  /\ faults = MaxFaults
  /\ run = 1
  /\ pc = "down"
  /\ base_config = parse_compose_file(baseFile)
  /\ runtime_config = parse_compose_file(runtimeFile)
  /\ \E i \in Extractable, j \in Extractable :
       \E s1 \in {"independent", "merged"}, s2 \in {"independent", "merged"} :
         /\ ex = extract_from_config(extract_from_config(NewExtractor, Trees[i], s1),
                                     Trees[j], s2)
         /\ extracted = {<<i, s1>>, <<j, s2>>}
  /\ todo = {}
  /\ cur = <<>>
  /\ idx = 1
  /\ tags = {}
  /\ exit_code = -1
  /\ exc = "none"
  /\ raised_in = "none"
  /\ executed = {}
  /\ would_run = {}
  /\ nonzero = {}
  /\ launch_failed = FALSE
  /\ disturbed = FALSE
  /\ response = NoResponse
  /\ report = NoReport
  /\ reporter_patterns = DockerReporter(PyList(patterns))
  /\ prev = <<>>
  /\ NoSizes
  /\ NoLauncher

NextCleanup ==
  \/ BringDown
  \/ StopContainer
  \/ RemoveContainer
  \/ RemoveImage
  \/ EnumerateTags
  \/ RemoveTag
  \/ RemoveVolume
  \/ RemoveVolumePrefixed
  \/ RemoveNetwork
  \/ RemoveNetworkPrefixed
  \/ ComposeDown
  \/ ListLeftoverImages
  \/ RemoveLeftoverImage
  \/ CleanDanglingImages
  \/ GetLeftoverContainers
  \/ GetLeftoverImages
  \/ GetLeftoverVolumes
  \/ GetLeftoverNetworks
  \/ PrintSummary

CleanupSpec == InitCleanup /\ [][NextCleanup]_vars

\* the union sets of an extractor, and nothing else of it
Unions(e) ==
  [containers |-> e.containers, images |-> e.images,
   volumes |-> e.volumes, networks |-> e.networks]

\* the names clean_volumes and clean_networks try for the names of ns
TriedNames(ns) ==
  UNION {{n, Prefixed(s_juno, n), Prefixed(s_helios, n)} : n \in ns}

\* the image rows of d that clean_images removes for the union sets u: those
\* a declared reference names and those of a declared reference's repository
ImagesCleaned(u, d) ==
  {r \in d.images :
     \/ \E i \in u.images : RmiNames(i, r)
     \/ \E i \in u.images : RepositoryOf(r.ref) = image_base(i)}

\* the rows the pattern sweep finds in what is left of rows
PatternRows(rows) == {r \in rows : MatchesPattern(r.ref, patterns)}

\* the daemon calls of a cleanup in execute mode for the union sets u, from
\* daemon state d, with the prompt answered by answer
CallsFor(u, d, answer) ==
  {Cmd(op, p) : op \in {"down", "down_v"}, p \in {s_juno, s_helios}}
    \cup {Cmd(op, c) : op \in {"stop", "rm"}, c \in u.containers}
    \cup {Cmd("rmi", i) : i \in u.images}
    \cup {Cmd("images_repo", image_base(i)) : i \in u.images}
    \cup {Cmd("rmi", r.ref) : r \in {x \in d.images :
                                       \E i \in u.images : RepositoryOf(x.ref) = image_base(i)}}
    \cup {Cmd("volume_rm", n) : n \in TriedNames(u.volumes)}
    \cup {Cmd("network_rm", n) : n \in TriedNames(u.networks)}
    \cup {Cmd("images_ids", <<>>)}
    \cup {Cmd("rmi", r.id) : r \in PatternRows(d.images \ ImagesCleaned(u, d))}
    \cup (IF Confirmed(answer) THEN {Cmd("prune", <<>>)} ELSE {})
    \cup {Cmd(op, <<>>) : op \in {"ps", "images", "volume_ls", "network_ls"}}

\* the commands a dry run announces for the union sets u, from daemon state d
AnnouncedFor(u, d) ==
  {Cmd(op, p) : op \in {"down", "down_v"}, p \in {s_juno, s_helios}}
    \cup {Cmd(op, c) : op \in {"stop", "rm"}, c \in u.containers}
    \cup {Cmd("rmi", i) : i \in u.images}
    \cup {Cmd("volume_rm", n) : n \in TriedNames(u.volumes)}
    \cup {Cmd("network_rm", n) : n \in TriedNames(u.networks)}
    \cup {Cmd("rmi", r.id) : r \in PatternRows(d.images)}
    \cup {Cmd("prune", <<>>)}

\* the daemon a cleanup in execute mode leaves for the union sets u, from
\* daemon state d
DaemonAfter(u, d, answer) ==
  LET swept(r) == ComposeLoadable /\ r.project \in {s_juno, s_helios}
      left == d.images \ ImagesCleaned(u, d)
      ids == {r.id : r \in PatternRows(left)}
      kept_images == {r \in left : r.id \notin ids}
  IN [containers |-> {r \in d.containers : r.name \notin u.containers /\ ~swept(r)},
      images |-> IF Confirmed(answer)
                 THEN {r \in kept_images : r.ref # s_dangling}
                 ELSE kept_images,
      volumes |-> {r \in d.volumes : r.name \notin TriedNames(u.volumes) /\ ~swept(r)},
      networks |-> {r \in d.networks : r.name \notin TriedNames(u.networks) /\ ~swept(r)}]

\* C19: the daemon calls of a cleanup and the daemon state it reaches are
\* determined by the four union sets (with the daemon's state at the start
\* and the answer to the prompt): whatever the independent and merged
\* shadow sets hold, the calls and the state are those computed from the
\* union sets alone.
C19_UnionSetsDecide ==
  pc = "done" =>
    IF dry_run
    THEN /\ would_run = AnnouncedFor(Unions(ex), start_daemon)
         /\ executed = {Cmd("images_ids", <<>>)}
         /\ daemon = start_daemon
    ELSE /\ executed = CallsFor(Unions(ex), start_daemon, response)
         /\ daemon = DaemonAfter(Unions(ex), start_daemon, response)

\* C19's case: a cleanup in execute mode has ended over a full daemon, its
\* network and one of its images known from a merged tree only, another
\* image from an independent tree only, its container from both
C19_Witness ==
  /\ pc = "done"
  /\ ~dry_run
  /\ start_daemon = FullDaemon
  /\ daemon # start_daemon
  /\ ex.networks_independent = {} /\ ex.networks = {s_net}
  /\ ex.containers_merged = {s_app1} /\ ex.containers_independent = {s_app1}
  /\ ex.images_independent = {s_app_10}
  /\ ex.images_merged = {s_app_latest}
  /\ Confirmed(response)

\* the four listings of print_report
ReportCalls == {Cmd(op, <<>>) : op \in {"ps", "images", "volume_ls", "network_ls"}}

\* the sweep passed the manifest check and returned
SweepReturned == pc = "done" /\ exit_code = 0

\* C20 as stated: every sweep that passes the manifest check ends with a
\* verification pass that queries the daemon's listings of containers,
\* images, volumes and networks.
C20_EverySweepVerifies == SweepReturned => ReportCalls \subseteq executed

\* the rows of a listing that the reporter's patterns match
Remaining(rows) ==
  {r \in rows : \/ Contains(Lower(IF "ref" \in DOMAIN r THEN r.ref ELSE r.name), s_juno)
                \/ Contains(Lower(IF "ref" \in DOMAIN r THEN r.ref ELSE r.name), s_helios)}

\* C20, amended: every sweep in execute mode that passes the manifest check
\* and returns ends with a verification pass: after the last cleanup step
\* it queries the daemon's listings of containers, images, volumes and
\* networks and reports the rows left that match juno or helios; a dry run
\* makes no verification pass.
C20_ExecuteSweepVerifies ==
  /\ dry_run => executed \cap ReportCalls = {} /\ report = NoReport
  /\ executed \cap ReportCalls # {} =>
       pc \in {"report_containers", "report_images", "report_volumes",
               "report_networks", "report_summary", "done", "crashed"}
  /\ (Terminated /\ CleanupReached /\ ~dry_run /\ ~launch_failed) => SweepReturned
  /\ (SweepReturned /\ ~dry_run) =>
       /\ ReportCalls \subseteq executed
       /\ Cmd("ps", <<>>) \notin nonzero => report.containers = Remaining(daemon.containers)
       /\ Cmd("images", <<>>) \notin nonzero => report.images = Remaining(daemon.images)
       /\ Cmd("volume_ls", <<>>) \notin nonzero => report.volumes = Remaining(daemon.volumes)
       /\ Cmd("network_ls", <<>>) \notin nonzero => report.networks = Remaining(daemon.networks)
       /\ report.total_items >= 0

\* C20's case: a sweep in execute mode returned after its four listings,
\* and found a container and an image that the cleanup had left
C20_Witness ==
  /\ SweepReturned
  /\ ~dry_run
  /\ ReportCalls \subseteq executed \ nonzero
  /\ report.containers # {}
  /\ report.images # {}
  /\ report.volumes = {}
  /\ report.total_items > 0

\* ---------------------------------------------- the reporter on its own

s_Juno == <<"J","u","n","o">>

\* the pattern arguments DockerReporter is constructed with: none, an empty
\* list, main's list, a pattern with a capital, patterns of other names
PatternArgs ==
  <<PyNone, PyList(<<>>), PyList(patterns), PyList(<<s_Juno>>), PyList(<<s_keep, s_app1>>)>>

\* DockerReporter(patterns).print_report() in a process of its own, whatever
\* an extractor holds and whether the daemon answers or not
InitReporter ==
  /\ baseFile = OkFile(T_base)
  /\ runtimeFile = OkFile(T_net)
  /\ \E i \in 1..Len(DaemonInits) : daemon = DaemonInits[i] /\ start_daemon = DaemonInits[i]
  /\ daemonUp \in BOOLEAN
  /\ dry_run = FALSE
  /\ faults = 0
  /\ run = 1
  /\ pc = "report_containers"
  /\ base_config = parse_compose_file(baseFile)
  /\ runtime_config = parse_compose_file(runtimeFile)
  /\ ex \in {NewExtractor, extract_all(base_config, runtime_config)}
  /\ extracted = {}
  /\ todo = {}
  /\ cur = <<>>
  /\ idx = 1
  /\ tags = {}
  /\ exit_code = -1
  /\ exc = "none"
  /\ raised_in = "none"
  /\ executed = {}
  /\ would_run = {}
  /\ nonzero = {}
  /\ launch_failed = FALSE
  /\ disturbed = FALSE
  /\ response = NoResponse
  /\ report = NoReport
  /\ \E k \in 1..Len(PatternArgs) : reporter_patterns = DockerReporter(PatternArgs[k])
  /\ prev = <<>>
  /\ NoSizes
  /\ NoLauncher

NextReporter ==
  \/ GetLeftoverContainers
  \/ GetLeftoverImages
  \/ GetLeftoverVolumes
  \/ GetLeftoverNetworks
  \/ PrintSummary

ReporterSpec == InitReporter /\ [][NextReporter]_vars

\* the name a listing shows for a row
NameOf(r) == IF "ref" \in DOMAIN r THEN r.ref ELSE r.name

\* the rows whose name contains a pattern of pats, both taken in lower case
CaseInsensitiveMatches(rows, pats) ==
  {r \in rows : \E i \in 1..Len(pats) : Contains(Lower(NameOf(r)), Lower(pats[i]))}

\* C21 as stated: for each kind, the reporter's leftover list is exactly the
\* rows of the daemon's live listing whose name contains at least one
\* pattern of the reporter's pattern list, compared case-insensitively,
\* whatever the ResourceSet and whatever the pattern list.
C21_LeftoverIsCaseInsensitiveMatch ==
  (pc = "done" /\ report.total_items >= 0 /\ ReportCalls \cap nonzero = {}) =>
    /\ report.containers = CaseInsensitiveMatches(daemon.containers, reporter_patterns)
    /\ report.images = CaseInsensitiveMatches(daemon.images, reporter_patterns)
    /\ report.volumes = CaseInsensitiveMatches(daemon.volumes, reporter_patterns)
    /\ report.networks = CaseInsensitiveMatches(daemon.networks, reporter_patterns)

\* C22 as stated: whenever the report states that cleanup succeeded with no
\* item left, the daemon holds no container, image, volume or network whose
\* name matches a pattern, and no listing query failed nor was the daemon
\* unavailable.
C22_SuccessMeansNothingLeft ==
  (pc = "done" /\ report.total_items = 0) =>
    /\ daemonUp
    /\ ReportCalls \cap nonzero = {}
    /\ CaseInsensitiveMatches(daemon.containers, patterns) = {}
    /\ CaseInsensitiveMatches(daemon.images, patterns) = {}
    /\ CaseInsensitiveMatches(daemon.volumes, patterns) = {}
    /\ CaseInsensitiveMatches(daemon.networks, patterns) = {}

\* the image ids the daemon's listings showed when the sweep started
ListedIds == {r.id : r \in start_daemon.images}

\* C23 as stated: every destructive call of the sweep names its target by
\* resource name (container, volume or network name, or image reference),
\* never by an identifier read from an earlier daemon listing.
C23_TargetsNamedNotListedIds ==
  \A c \in Mutating(executed \cup would_run) :
    /\ c.op = "rmi" => c.arg \notin ListedIds
    /\ c.op \in {"stop", "rm"} => c.arg \in ex.containers
    /\ c.op = "volume_rm" => c.arg \in TriedNames(ex.volumes)
    /\ c.op = "network_rm" => c.arg \in TriedNames(ex.networks)

\* the answers of PromptOutcomes that say yes: "y" and " Yes "
Affirmative(answer) ==
  answer.kind = "line" /\ answer.text \in {<<"y">>, <<" ","Y","e","s"," ">>}

\* main from the report on, or ended
ReportOrEnd ==
  pc \in {"report_containers", "report_images", "report_volumes",
          "report_networks", "report_summary", "done", "crashed"}

\* C24: in execute mode the dangling-image prune is issued only after the
\* prompt was answered y or yes; on end of input, an interrupt or any other
\* answer the prune is not issued, and the sweep goes on to the verification
\* report and returns 0.
C24_PruneOnlyOnYes ==
  /\ Cmd("prune", <<>>) \in executed => ~dry_run /\ Affirmative(response)
  /\ (~dry_run /\ Affirmative(response)) => Cmd("prune", <<>>) \in executed
  /\ (~dry_run /\ response # NoResponse /\ ~Affirmative(response)) =>
       /\ Cmd("prune", <<>>) \notin executed
       /\ ReportOrEnd
       /\ pc = "crashed" => raised_in = "print_report"
       /\ (Terminated /\ ~launch_failed) => SweepReturned /\ ReportCalls \subseteq executed
       /\ {r \in daemon.images : r.ref = s_dangling}
            = {r \in start_daemon.images : r.ref = s_dangling}

\* C24's case: the prompt met the end of input, no prune was issued, the
\* dangling image is still there, the report was made and the sweep
\* returned 0
C24_Witness ==
  /\ ~dry_run
  /\ response.kind = "EOFError"
  /\ SweepReturned
  /\ start_daemon = FullDaemon
  /\ ImageRow(s_i4, s_dangling) \in daemon.images
  /\ ReportCalls \subseteq executed \ nonzero
  /\ report.total_items >= 0

\* ------------------------------------------------------------------- sizes

\* str.upper() on one character
UpperChar(c) ==
  IF \E i \in 1..Len(LowerChars) : LowerChars[i] = c
  THEN UpperChars[CHOOSE i \in 1..Len(LowerChars) : LowerChars[i] = c]
  ELSE c

\* str.upper()
Upper(s) == [i \in 1..Len(s) |-> UpperChar(s[i])]

\* s.endswith(suffix)
EndsWith(s, suffix) ==
  Len(s) >= Len(suffix) /\ SubSeq(s, Len(s) - Len(suffix) + 1, Len(s)) = suffix

Digits == <<"0","1","2","3","4","5","6","7","8","9">>

IsDigit(c) == \E i \in 1..Len(Digits) : Digits[i] = c

DigitValue(c) == (CHOOSE i \in 1..Len(Digits) : Digits[i] = c) - 1

\* int() of a string of digits
RECURSIVE NatOf(_)
NatOf(s) == IF s = <<>> THEN 0 ELSE 10 * NatOf(SubSeq(s, 1, Len(s) - 1)) + DigitValue(s[Len(s)])

RECURSIVE Pow(_, _)
Pow(b, k) == IF k = 0 THEN 1 ELSE b * Pow(b, k - 1)

RECURSIVE GCD(_, _)
GCD(a, b) == IF b = 0 THEN a ELSE GCD(b, a % b)

\* A float that is no NaN and not negative, held exactly: n/d * 1024^e, in
\* lowest terms, with 1 <= n/d < 1024 unless it is 0.  The values of the
\* model are sums of a few decimal fractions times powers of 1024, which a
\* Python float holds exactly when the fraction is binary (0.5, 0.25).
RECURSIVE Float(_, _, _)
Float(n, d, e) ==
  IF n = 0 THEN [n |-> 0, d |-> 1, e |-> 0]
  ELSE IF GCD(n, d) # 1 THEN Float(n \div GCD(n, d), d \div GCD(n, d), e)
  ELSE IF n < d THEN Float(n * 1024, d, e - 1)
  ELSE IF n \div d >= 1024 THEN Float(n, d * 1024, e + 1)
  ELSE [n |-> n, d |-> d, e |-> e]

\* x + y on floats
FloatAdd(x, y) ==
  IF x.n = 0 THEN y
  ELSE IF y.n = 0 THEN x
  ELSE LET m == IF x.e < y.e THEN x.e ELSE y.e
           px == Pow(1024, x.e - m)
           py == Pow(1024, y.e - m)
           xn == x.n * (px \div GCD(px, x.d))
           xd == x.d \div GCD(px, x.d)
           yn == y.n * (py \div GCD(py, y.d))
           yd == y.d \div GCD(py, y.d)
           lcm == (xd \div GCD(xd, yd)) * yd
       IN Float(xn * (lcm \div xd) + yn * (lcm \div yd), lcm, m)

\* x >= 1024 on floats
AtLeast1024(x) == x.n # 0 /\ x.e >= 1

\* x / 1024 on floats
Over1024(x) == IF x.n = 0 THEN x ELSE [x EXCEPT !.e = @ - 1]

\* float(s) for the strings of the model: digits with at most one '.', in
\* optional whitespace; anything else is a ValueError
FloatOf(s) ==
  LET t == Strip(s)
      dot == FirstIndex(t, ".")
      whole == IF dot = 0 THEN t ELSE SubSeq(t, 1, dot - 1)
      frac == IF dot = 0 THEN <<>> ELSE SubSeq(t, dot + 1, Len(t))
      digits == whole \o frac
  IN IF digits # <<>> /\ \A i \in 1..Len(digits) : IsDigit(digits[i])
     THEN [ok |-> TRUE, value |-> Float(NatOf(digits), Pow(10, Len(frac)), 0)]
     ELSE [ok |-> FALSE, value |-> Float(0, 1, 0)]

\* the units of parse_size_string with the exponent of their multiplier
\* 1024**k, the longer units first
multipliers ==
  << <<<<"T","B">>, 4>>, <<<<"G","B">>, 3>>, <<<<"M","B">>, 2>>, <<<<"K","B">>, 1>>,
     <<<<"B">>, 0>> >>

\* float * 1024**k
TimesMultiplier(x, k) == IF x.n = 0 THEN x ELSE [x EXCEPT !.e = @ + k]

\* parse_size_string, lines 238-259
parse_size_string(size_str) ==
  IF size_str = <<>> \/ size_str = <<"0","B">> THEN Float(0, 1, 0)
  ELSE LET up == Upper(Strip(size_str))
       IN IF \E i \in 1..Len(multipliers) : EndsWith(up, multipliers[i][1])
          THEN LET i == CHOOSE i \in 1..Len(multipliers) :
                          /\ EndsWith(up, multipliers[i][1])
                          /\ \A j \in 1..(i - 1) : ~EndsWith(up, multipliers[j][1])
                   number == FloatOf(SubSeq(up, 1, Len(up) - Len(multipliers[i][1])))
               IN IF number.ok
                  THEN TimesMultiplier(number.value, multipliers[i][2])
                  ELSE Float(0, 1, 0)
          ELSE Float(0, 1, 0)

\* calculate_total_size without the cut at '(': the whole string is parsed
WholeFigure(size_str) == size_str

\* the size string calculate_total_size passes on: the text before the
\* first '(' when there is one, stripped
PrimaryFigure(size_str) ==
  IF FirstIndex(size_str, "(") # 0
  THEN Strip(SubSeq(size_str, 1, FirstIndex(size_str, "(") - 1))
  ELSE size_str

\* calculate_total_size, lines 381-390, on the size strings of the items
RECURSIVE calculate_total_size(_)
calculate_total_size(strs) ==
  IF strs = <<>> THEN Float(0, 1, 0)
  ELSE FloatAdd(calculate_total_size(SubSeq(strs, 1, Len(strs) - 1)),
                parse_size_string(PrimaryFigure(strs[Len(strs)])))

\* str(n) for a natural number
RECURSIVE StrOfNat(_)
StrOfNat(n) ==
  IF n < 10 THEN <<Digits[n + 1]>> ELSE StrOfNat(n \div 10) \o <<Digits[(n % 10) + 1]>>

\* f"{value:.2f}": the hundredths nearest to n/d * 1024^e, a tie going to
\* the even one
TwoDecimals(x) ==
  LET num == x.n * 100 * (IF x.e > 0 THEN Pow(1024, x.e) ELSE 1)
      den == x.d * (IF x.e < 0 THEN Pow(1024, 0 - x.e) ELSE 1)
      q == num \div den
      r == num % den
      h == IF 2 * r > den \/ (2 * r = den /\ q % 2 = 1) THEN q + 1 ELSE q
  IN StrOfNat(h \div 100) \o <<".">> \o <<Digits[((h \div 10) % 10) + 1]>>
       \o <<Digits[(h % 10) + 1]>>

units == <<<<"B">>, <<"K","B">>, <<"M","B">>, <<"G","B">>, <<"T","B">>>>

\* the while loop of format_bytes, lines 271-273
RECURSIVE Scaled(_, _)
Scaled(value, unit_index) ==
  IF AtLeast1024(value) /\ unit_index < Len(units) - 1
  THEN Scaled(Over1024(value), unit_index + 1)
  ELSE [value |-> value, unit_index |-> unit_index]

\* format_bytes, lines 262-275
format_bytes(bytes_value) ==
  IF bytes_value.n = 0 THEN <<"0","B">>
  ELSE LET to == Scaled(bytes_value, 0)
       IN TwoDecimals(to.value) \o units[to.unit_index + 1]

\* the variables of the sweep of main()
sweep_vars ==
  <<files, io, ctl, data, extracted, run, dry_run, daemonUp, start_daemon, prev,
    reporter_patterns>>

\* no sweep is running: the variables of main() at rest
NoSweep ==
  /\ baseFile = MissingFile
  /\ runtimeFile = MissingFile
  /\ daemon = EmptyDaemon
  /\ start_daemon = EmptyDaemon
  /\ daemonUp = TRUE
  /\ dry_run = FALSE
  /\ faults = 0
  /\ run = 1
  /\ pc = "none"
  /\ base_config = PyNone
  /\ runtime_config = PyNone
  /\ ex = NewExtractor
  /\ extracted = {}
  /\ todo = {}
  /\ cur = <<>>
  /\ idx = 1
  /\ tags = {}
  /\ exit_code = -1
  /\ exc = "none"
  /\ raised_in = "none"
  /\ executed = {}
  /\ would_run = {}
  /\ nonzero = {}
  /\ launch_failed = FALSE
  /\ disturbed = FALSE
  /\ response = NoResponse
  /\ report = NoReport
  /\ reporter_patterns = DockerReporter(PyList(patterns))
  /\ prev = <<>>

s_0B == <<"0","B">>
s_1_5GB == <<"1",".","5","G","B">>
s_1_5KB == <<"1",".","5","K","B">>
s_512B == <<"5","1","2","B">>
s_1024B == <<"1","0","2","4","B">>
s_quarterB == <<"0",".","2","5","B">>
s_2kB == <<" ","2","k","B"," ">>
s_123MB_virtual ==
  <<"1","2","3","M","B"," ","(","v","i","r","t","u","a","l"," ","4","5","6","M","B",")">>
s_NA == <<"N","/","A">>
s_1_5GiB == <<"1",".","5","G","i","B">>
s_2048TB == <<"2","0","4","8","T","B">>

\* size strings as the daemon's listings show them, with a missing size, a
\* size that is no number, and sizes at both ends of the units
SizeStrings ==
  {s_0B, s_1_5GB, s_1_5KB, s_512B, s_1024B, s_quarterB, s_2kB, s_123MB_virtual,
   s_NA, s_1_5GiB, s_2048TB, <<>>}

\* the longest list of records whose sizes are added
MaxItems == 2

\* the size strings that lists of more than one record are made of
SmallSizeStrings == SizeStrings \ {s_1_5GB, s_2048TB, s_quarterB}

PyFloat(x) == [t |-> "float", v |-> x]

\* the reporter's size functions on their own: a list of records is given
InitSizes ==
  /\ NoSweep
  /\ NoLauncher
  /\ items \in {<<>>} \cup {<<s>> : s \in SizeStrings}
               \cup {strs \in UNION {[1..k -> SmallSizeStrings] : k \in 2..MaxItems} : TRUE}
  /\ total = PyNone
  /\ text = PyNone

\* print_report, lines 407, 417, 427: total_size = calculate_total_size(...)
CalculateTotalSize ==
  /\ total = PyNone
  /\ total' = PyFloat(calculate_total_size(items))
  /\ UNCHANGED <<sweep_vars, launcher, items, text>>

\* print_report, lines 408, 418, 429: format_bytes(total_size)
FormatBytes ==
  /\ total # PyNone
  /\ text = PyNone
  /\ text' = PyStr(format_bytes(total.v))
  /\ UNCHANGED <<sweep_vars, launcher, items, total>>

NextSizes ==
  \/ CalculateTotalSize
  \/ FormatBytes

SizeSpec == InitSizes /\ [][NextSizes]_vars

\* what each size string of SmallSizeStrings counts for, in quarters of a
\* byte, worked out by hand at 1024 bytes to the KB
ExpectedQuarters(s) ==
  CASE s = s_0B -> 0
    [] s = s_1_5KB -> 6 * 1024
    [] s = s_512B -> 4 * 512
    [] s = s_1024B -> 4 * 1024
    [] s = s_2kB -> 8 * 1024
    [] s = s_123MB_virtual -> 4 * 123 * 1024 * 1024
    [] OTHER -> 0

\* the quarters of a byte that a list of size strings counts for
RECURSIVE TotalExpected(_)
TotalExpected(strs) ==
  IF strs = <<>> THEN 0 ELSE ExpectedQuarters(Head(strs)) + TotalExpected(Tail(strs))

\* a float of less than 2^29 bytes in quarters of a byte
Quarters(x) ==
  LET scale == 4 * Pow(1024, x.e)
  IN (x.n * (scale \div GCD(scale, x.d))) \div (x.d \div GCD(scale, x.d))

\* C25: sizes are parsed and formatted at a 1024 base with the units B, KB,
\* MB, GB and TB: "0B" parses to 0, "1.5GB" to 1.5 * 1024^3 bytes, 1536
\* bytes are formatted as "1.50KB"; the total of a list of records is the
\* sum of the parsed sizes, a size with a virtual-size annotation in
\* parentheses counting for the figure before the parenthesis only.
C25_SizesAt1024 ==
  /\ (total # PyNone /\ items = <<s_0B>>) => total.v = [n |-> 0, d |-> 1, e |-> 0]
  /\ (total # PyNone /\ items = <<s_1_5GB>>) => total.v = [n |-> 3, d |-> 2, e |-> 3]
  /\ (total # PyNone /\ items = <<s_2048TB>>) => total.v = [n |-> 2, d |-> 1, e |-> 5]
  /\ (total # PyNone /\ items = <<s_quarterB>>) => total.v = [n |-> 256, d |-> 1, e |-> -1]
  /\ (total # PyNone /\ \A i \in 1..Len(items) : items[i] \in SmallSizeStrings) =>
       /\ total.v.e >= 0
       /\ (4 * Pow(1024, total.v.e)) % total.v.d = 0
       /\ Quarters(total.v) = TotalExpected(items)
  /\ (text # PyNone /\ total.v = [n |-> 3, d |-> 2, e |-> 1]) =>
       text.v = <<"1",".","5","0","K","B">>
  /\ (text # PyNone /\ items = <<s_1_5GB>>) => text.v = <<"1",".","5","0","G","B">>
  /\ (text # PyNone /\ items = <<s_2048TB>>) =>
       text.v = <<"2","0","4","8",".","0","0","T","B">>
  /\ (text # PyNone /\ items = <<s_123MB_virtual, s_123MB_virtual>>) =>
       text.v = <<"2","4","6",".","0","0","M","B">>
  /\ (text # PyNone /\ total.v.n = 0) => text.v = <<"0","B">>

\* C25's case: a container size with its virtual size in parentheses and a
\* size of 1.5KB were added, and the total was formatted
C25_Witness ==
  /\ items = <<s_123MB_virtual, s_1_5KB>>
  /\ total # PyNone
  /\ Quarters(total.v) = 4 * 123 * 1024 * 1024 + 6 * 1024
  /\ text = PyStr(<<"1","2","3",".","0","0","M","B">>)

\* C26 as stated: the extraction of any parsed tree completes without
\* raising, also of a tree whose services value, service entry, build value,
\* cache_from value, volumes or networks value has not the expected shape,
\* and the sets hold the identifiers of the well-formed entries.
C26_ExtractionCompletes ==
  /\ exc = "none"
  /\ \A p \in extracted :
       /\ DeclaredIn(p[1]).containers \subseteq ex.containers
       /\ DeclaredIn(p[1]).images \subseteq ex.images
       /\ DeclaredIn(p[1]).volumes \subseteq ex.volumes
       /\ DeclaredIn(p[1]).networks \subseteq ex.networks
  /\ ex.volumes = UNION {DeclaredIn(p[1]).volumes : p \in extracted}

\* the container, volume or network row is one the sweep may remove: its
\* name is an identifier of the ResourceSet (for a volume or network also a
\* juno_ or helios_ variant of one), or it belongs to project juno or helios
RowInClasses(r, names) == r.name \in names \/ r.project \in {s_juno, s_helios}

\* the image row is one the sweep may remove: a declared reference, a
\* reference of a declared image's repository, or a reference that contains
\* juno or helios
ImageInClasses(r) ==
  \/ \E i \in ex.images : r.ref = i \/ r.ref = i \o <<":","l","a","t","e","s","t">>
  \/ \E i \in ex.images : RepositoryOf(r.ref) = image_base(i)
  \/ MatchesPattern(r.ref, patterns)

\* C27 as stated: apart from the dangling-image prune after the user's
\* confirmation, no run removes a resource outside the classes of C27: every
\* row of the daemon's listings that a sweep has removed is in one of them.
C27_OnlyOwnResourcesRemoved ==
  /\ \A r \in start_daemon.containers \ daemon.containers : RowInClasses(r, ex.containers)
  /\ \A r \in start_daemon.volumes \ daemon.volumes : RowInClasses(r, TriedNames(ex.volumes))
  /\ \A r \in start_daemon.networks \ daemon.networks : RowInClasses(r, TriedNames(ex.networks))
  /\ \A r \in start_daemon.images \ daemon.images :
       \/ ImageInClasses(r)
       \/ r.ref = s_dangling /\ Confirmed(response) /\ Cmd("prune", <<>>) \in executed

\* the plain project-level downs of main, lines 673-682
PlainDowns == {Cmd("down", s_juno), Cmd("down", s_helios)}

ContainerCommands == {Cmd(op, c) : op \in {"stop", "rm"}, c \in ex.containers}

ImageCommands == {Cmd("rmi", i) : i \in ex.images}

VolumeCommands == {Cmd("volume_rm", v) : v \in TriedNames(ex.volumes)}

NetworkCommands == {Cmd("network_rm", n) : n \in TriedNames(ex.networks)}

\* the order of the steps, as far as the sweep has come
C28_Order ==
  /\ Cmd("down", s_helios) \in Attempted => Cmd("down", s_juno) \in Attempted
  /\ (\E c \in Attempted : c.op \in {"stop", "rm", "rmi", "volume_rm", "network_rm", "down_v"}) =>
       PlainDowns \subseteq Attempted
  /\ (\E c \in Attempted : c.op \in {"rmi", "volume_rm", "network_rm"}) =>
       ContainerCommands \subseteq Attempted
  /\ (\E c \in Attempted : c.op \in {"volume_rm", "network_rm"}) =>
       /\ ImageCommands \subseteq Attempted
       /\ ~dry_run => \A i \in ex.images : Cmd("images_repo", image_base(i)) \in executed
  /\ (\E c \in Attempted : c.op = "network_rm") => VolumeCommands \subseteq Attempted
  /\ (Terminated /\ CleanupReached /\ ~launch_failed) =>
       PlainDowns \cup ContainerCommands \cup ImageCommands \cup VolumeCommands
         \cup NetworkCommands \subseteq Attempted

\* a plain down is issued in main's first step only, a container command in
\* clean_containers only, and so on
C28_Step ==
  \A c \in Attempted' \ Attempted :
    /\ c.op = "down" => pc = "down"
    /\ c.op \in {"stop", "rm"} => pc \in {"cc_stop", "cc_rm"}
    /\ c.op = "rmi" => pc \in {"ci_rmi", "ci_tags", "lo_rmi"}
    /\ c.op = "volume_rm" => pc \in {"cv_bare", "cv_prefixed"}
    /\ c.op = "network_rm" => pc \in {"cn_bare", "cn_prefixed"}

\* C28: in every sweep that passes the manifest check and that no exception
\* ends, a plain project-level down (without volume removal) is issued for
\* juno and for helios before the first itemized stop, rm, rmi, volume rm or
\* network rm, and the itemized steps then run in the order containers,
\* images, volumes, networks.
C28_DownsFirstThenFixedOrder == []C28_Order /\ [][C28_Step]_vars

\* C28's case: both plain downs were issued, one of them failing, then the
\* container, image and volume commands, and the sweep is about to remove
\* its first network
C28_Witness ==
  /\ pc = "cn_bare"
  /\ ~dry_run
  /\ ex.containers # {} /\ ex.images # {} /\ ex.volumes # {} /\ todo = ex.networks
  /\ PlainDowns \subseteq executed
  /\ Cmd("down", s_juno) \in nonzero
  /\ ContainerCommands \cup ImageCommands \cup VolumeCommands \subseteq executed
  /\ \A c \in executed : c.op # "network_rm"

\* ---------------------------------------------------------------- launcher

s_juno_runtime == <<"j","u","n","o","-","r","u","n","t","i","m","e">>
s_edge == <<"e","d","g","e">>
s_VERSION == <<"V","E","R","S","I","O","N">>
s_version == <<"v","e","r","s","i","o","n">>
s_setup_on == <<"s","e","t","u","p","_","o","n">>
s_power_mode == <<"p","o","w","e","r","_","m","o","d","e">>
s_timestamp == <<"t">>
s_mode0 == <<"0">>
s_import == <<"i","m","p","o","r","t"," ","s","y","s">>
s_1_10 == <<"1",".","1","0">>
s_1_9 == <<"1",".","9">>
s_1 == <<"1">>
s_1_10_1 == <<"1",".","1","0",".","1">>
s_2_0 == <<"2",".","0">>
s_1_x == <<"1",".","x">>
s_v2 == <<"v","2">>
s_VERSION_tight == <<"V","E","R","S","I","O","N","=","\"","1",".","1","0","\"">>
s_VERSION_empty == <<"V","E","R","S","I","O","N"," ","="," ","\"","\"">>
s_Version_1_9 == <<" "," ","V","e","r","s","i","o","n"," ","="," "," ","\""," ","1",".","9","\"">>

\* os.environ.get("COMPOSE_PROJECT_NAME", ROOT_DIR.name), run_juno.py line 15
PROJECT_NAME == IF environ = PyNone THEN root_dir_name ELSE environ.v

\* value.split(".")
RECURSIVE SplitDots(_)
SplitDots(s) ==
  IF FirstIndex(s, ".") = 0 THEN <<s>>
  ELSE <<SubSeq(s, 1, FirstIndex(s, ".") - 1)>>
         \o SplitDots(SubSeq(s, FirstIndex(s, ".") + 1, Len(s)))

\* int(part) raises no ValueError: digits, with blanks around them allowed
\* (the versions of the model carry no sign and no underscore)
IsInt(part) ==
  /\ Strip(part) # <<>>
  /\ \A i \in 1..Len(Strip(part)) : IsDigit(Strip(part)[i])

PyTuple(xs) == [t |-> "tuple", v |-> xs]

\* parse_version: the tuple of the integers between the dots, None when a
\* part is no integer
parse_version(value) ==
  LET parts == SplitDots(Strip(value))
  IN IF \A i \in 1..Len(parts) : IsInt(parts[i])
     THEN PyTuple([i \in 1..Len(parts) |-> NatOf(Strip(parts[i]))])
     ELSE PyNone

\* a < b on tuples of integers: at the first place they differ, and a proper
\* prefix is less
RECURSIVE TupleLess(_, _)
TupleLess(a, b) ==
  IF a = <<>> THEN b # <<>>
  ELSE IF b = <<>> THEN FALSE
  ELSE IF Head(a) # Head(b) THEN Head(a) < Head(b)
  ELSE TupleLess(Tail(a), Tail(b))

\* a file of the provisioning that is there and cannot be read (OSError)
UnreadableFile == [kind |-> "unreadable", lines |-> <<>>]

\* a file of the provisioning with these lines of text
TextFile(lines) == [kind |-> "text", lines |-> lines]

\* path.is_file()
is_file(path) == path.kind # "missing"

\* re.compile(r'^<keyword>\s*=\s*"([^"]+)"').match(line.strip()): group(1),
\* None when the line does not match
VersionMatch(line, keyword, ignorecase) ==
  LET l == Strip(line)
      head == SubSeq(l, 1, Len(keyword))
      r1 == LStrip(SubSeq(l, Len(keyword) + 1, Len(l)))
      r2 == LStrip(Tail(r1))
      r3 == Tail(r2)
      close == FirstIndex(r3, "\"")
  IN IF Len(l) < Len(keyword) THEN PyNone
     ELSE IF (IF ignorecase THEN Lower(head) # Lower(keyword) ELSE head # keyword)
     THEN PyNone
     ELSE IF r1 = <<>> \/ Head(r1) # "=" THEN PyNone
     ELSE IF r2 = <<>> \/ Head(r2) # "\"" THEN PyNone
     ELSE IF close < 2 THEN PyNone
     ELSE PyStr(SubSeq(r3, 1, close - 1))

\* the loop over splitlines(): the first line that matches
RECURSIVE FirstMatch(_, _, _)
FirstMatch(lines, keyword, ignorecase) ==
  IF lines = <<>> THEN PyNone
  ELSE IF VersionMatch(Head(lines), keyword, ignorecase) # PyNone
  THEN VersionMatch(Head(lines), keyword, ignorecase)
  ELSE FirstMatch(Tail(lines), keyword, ignorecase)

\* read_setup_version
read_setup_version(path) ==
  IF path.kind # "text" THEN PyNone ELSE FirstMatch(path.lines, s_VERSION, FALSE)

\* read_recorded_version
read_recorded_version(path) ==
  IF path.kind # "text" THEN PyNone ELSE FirstMatch(path.lines, s_version, TRUE)

\* f'{key} = "{value}"'
KeyValueLine(key, value) == key \o <<" ","="," ","\"">> \o value \o <<"\"">>

\* JetsonSetup.write_state_file: the timestamp, VERSION and the power mode
write_state_file(VERSION) ==
  TextFile(<<KeyValueLine(s_setup_on, s_timestamp),
             KeyValueLine(s_version, VERSION),
             KeyValueLine(s_power_mode, s_mode0)>>)

\* setup-jetson.py with this VERSION line
ScriptWith(version_line) == TextFile(<<s_import, version_line>>)

\* the states of setup-jetson.py the model is run on: missing, unreadable,
\* without a VERSION line, with an empty one, with a version that is no
\* number, and with version 1.10 written in two ways
SetupScripts ==
  <<NoFile, UnreadableFile, ScriptWith(s_import), ScriptWith(s_VERSION_empty),
    ScriptWith(KeyValueLine(s_VERSION, s_v2)),
    ScriptWith(KeyValueLine(s_VERSION, s_1_10)), ScriptWith(s_VERSION_tight)>>

\* the states of .setup_complete.toml the model is run on: missing,
\* unreadable, without a version line, with a version that is no number, and
\* with versions below, at and above 1.10
StateFiles ==
  <<NoFile, UnreadableFile, TextFile(<<KeyValueLine(s_setup_on, s_timestamp)>>),
    write_state_file(s_1_x), write_state_file(s_1_9), write_state_file(s_1),
    TextFile(<<s_Version_1_9>>), write_state_file(s_1_10),
    write_state_file(s_1_10_1), write_state_file(s_2_0)>>

\* needs_setup without the comparison of the versions
NeedsSetupIfUnrecorded(state_exists, recorded_version, setup_version) ==
  ~state_exists \/ recorded_version = PyNone

\* needs_setup, lines 89 to 93
NeedsSetup(state_exists, recorded_version, setup_version) ==
  \/ ~state_exists
  \/ recorded_version = PyNone
  \/ TupleLess(recorded_version.v, setup_version.v)

\* recorded_version, lines 84 to 88
RecordedVersion ==
  IF Truthy(read_recorded_version(state_file))
  THEN parse_version(read_recorded_version(state_file).v)
  ELSE PyNone

\* ensure_jetson_setup reaches subprocess.run: none of the returns of lines
\* 68 to 82 is taken and needs_setup is true
SetupDue ==
  /\ is_file(setup_script)
  /\ Truthy(read_setup_version(setup_script))
  /\ parse_version(read_setup_version(setup_script).v) # PyNone
  /\ NeedsSetup(is_file(state_file), RecordedVersion,
                parse_version(read_setup_version(setup_script).v))

\* what a run of setup-jetson.py finds on the host
Hosts ==
  [owner_wrong : BOOLEAN,      \* line 150: the runtime directory is another user's
   have_priv : BOOLEAN,        \* PrivilegeManager: root, or sudo on the PATH
   in_docker_group : BOOLEAN,  \* line 220, or the user is root or unknown
   jetson_clocks : BOOLEAN,    \* line 302: the jetson_clocks command is there
   clocks_set : BOOLEAN,       \* lines 324 and 350: the service is installed and enabled
   power_mode_set : BOOLEAN,   \* lines 241 and 265: no nvpmodel, or the mode is current
   applied : BOOLEAN,          \* the privileged commands return 0
   writable : BOOLEAN]         \* write_text on the state marker raises nothing

\* note_root_required: the actions noted by a run without privileges, in
\* ensure_docker_group_membership, ensure_jetson_clocks_service and
\* ensure_power_mode
RootMissingActions(h) ==
  IF h.have_priv THEN {}
  ELSE (IF h.in_docker_group THEN {} ELSE {"docker_group"})
         \cup (IF h.jetson_clocks THEN {"jetson_clocks_service"} ELSE {})
         \cup (IF h.power_mode_set THEN {} ELSE {"power_mode"})

\* self.changes_made at the end of the three ensure steps: a privileged
\* command was needed and returned 0
ChangesMade(h) ==
  /\ h.have_priv
  /\ h.applied
  /\ ~h.in_docker_group \/ (h.jetson_clocks /\ ~h.clocks_set) \/ ~h.power_mode_set

\* run writes the state marker whatever was noted
WritesStateFileAlways(marker, h) == TRUE

\* run, lines 451 to 455: the state marker is written when no action
\* requires root and a change was made or no marker exists
WritesStateFile(marker, h) ==
  /\ RootMissingActions(h) = {}
  /\ ChangesMade(h) \/ marker.kind = "missing"

\* JetsonSetup.run on this host: the exit status, the state marker it
\* leaves, and what it noted.  sys.exit(1) at line 160 comes before every
\* ensure step; write_text that raises ends the process with status 1.
JetsonSetupRun(marker, VERSION, h) ==
  IF h.owner_wrong
  THEN [ran |-> TRUE, before |-> marker, root_missing_actions |-> {},
        changes_made |-> FALSE, returncode |-> 1, state_file |-> marker]
  ELSE IF WritesStateFile(marker, h) /\ ~h.writable
  THEN [ran |-> TRUE, before |-> marker, root_missing_actions |-> RootMissingActions(h),
        changes_made |-> ChangesMade(h), returncode |-> 1, state_file |-> marker]
  ELSE [ran |-> TRUE, before |-> marker, root_missing_actions |-> RootMissingActions(h),
        changes_made |-> ChangesMade(h), returncode |-> 0,
        state_file |-> IF WritesStateFile(marker, h)
                       THEN write_state_file(VERSION) ELSE marker]

\* the runs of setup-jetson.py on every host
SetupRuns(marker, VERSION) == {JetsonSetupRun(marker, VERSION, h) : h \in Hosts}

\* what the run leaves in self: the record without the marker written
NotedBy(r) ==
  [ran |-> r.ran, before |-> r.before, root_missing_actions |-> r.root_missing_actions,
   changes_made |-> r.changes_made, returncode |-> r.returncode]

\* what the launcher leaves alone, the daemon apart
beside_launcher ==
  <<files, faults, executed, would_run, nonzero, launch_failed, disturbed, ctl, data,
    extracted, run, dry_run, daemonUp, start_daemon, prev, reporter_patterns, sizes>>

\* the exit statuses a child process of the launcher ends with
ReturnCodes == {0, 1, 2}

\* subprocess.run of the launcher: the child's exit status, or OSError raised
\* because the child could not be started
Completed(code) == [raised |-> FALSE, returncode |-> code]

Raised == [raised |-> TRUE, returncode |-> -1]

\* one subprocess.run call of the launcher and what came of it
LCall(op, arg, result) ==
  [op |-> op, arg |-> arg, raised |-> result.raised, returncode |-> result.returncode]

\* sys.exit(code), and the status 1 of an exception nobody catches
Exits(code) == lpc' = "exited" /\ returncode' = code

\* the launcher is started
StartLauncher ==
  /\ lpc = "none"
  /\ lpc' = "ensure_jetson_setup"
  /\ UNCHANGED <<environ, root_dir_name, setup_script, state_file, combined_file,
                 launched, returncode, setup>>
  /\ UNCHANGED <<daemon, beside_launcher>>

\* ensure_jetson_setup, lines 66 to 107, with the run of the setup script
EnsureJetsonSetup ==
  /\ lpc = "ensure_jetson_setup"
  /\ IF SetupDue
     THEN \/ \E r \in SetupRuns(state_file, read_setup_version(setup_script).v) :
               /\ launched' = Append(launched, LCall("setup", <<>>, Completed(r.returncode)))
               /\ state_file' = r.state_file
               /\ setup' = NotedBy(r)
               /\ IF r.returncode # 0
                  THEN Exits(r.returncode)
                  ELSE lpc' = "ensure_base" /\ UNCHANGED returncode
          \/ /\ launched' = Append(launched, LCall("setup", <<>>, Raised))
             /\ Exits(1)
             /\ UNCHANGED <<state_file, setup>>
     ELSE /\ lpc' = "ensure_base"
          /\ UNCHANGED <<launched, state_file, returncode, setup>>
  /\ UNCHANGED <<environ, root_dir_name, setup_script, combined_file>>
  /\ UNCHANGED <<daemon, beside_launcher>>

\* the launcher going on without a look at the manifest files
ComposeFileUnchecked ==
  /\ lpc \in {"ensure_base", "ensure_runtime"}
  /\ lpc' = (IF lpc = "ensure_base" THEN "ensure_runtime" ELSE "build")
  /\ UNCHANGED <<environ, root_dir_name, setup_script, state_file, combined_file, launched,
                 returncode, setup>>
  /\ UNCHANGED <<daemon, beside_launcher>>

\* ensure_compose_file, lines 111 to 115, called at lines 150 and 151
EnsureComposeFile ==
  /\ lpc \in {"ensure_base", "ensure_runtime"}
  /\ LET path == IF lpc = "ensure_base" THEN baseFile ELSE runtimeFile
     IN IF ~Exists(path)
        THEN Exits(1)
        ELSE /\ lpc' = (IF lpc = "ensure_base" THEN "ensure_runtime" ELSE "build")
             /\ UNCHANGED returncode
  /\ UNCHANGED <<environ, root_dir_name, setup_script, state_file, combined_file, launched,
                 setup>>
  /\ UNCHANGED <<daemon, beside_launcher>>

\* what docker compose config can come to: 0 only on manifests it can load
ConfigResults ==
  {Raised} \cup {Completed(c) : c \in (IF ComposeLoadable THEN ReturnCodes ELSE ReturnCodes \ {0})}

\* what pull and up can come to: 0 only when the daemon answers
DaemonResults ==
  {Raised} \cup {Completed(c) : c \in (IF daemonUp THEN ReturnCodes ELSE ReturnCodes \ {0})}

\* what setup-echo.sh can come to
ScriptResults == {Raised} \cup {Completed(c) : c \in ReturnCodes}

\* build_combined_compose, lines 119 to 142: the temporary file is created,
\* OSError leaves the function with the file on disk, a nonzero status
\* unlinks it and exits with that status
BuildCombinedCompose ==
  /\ lpc = "build"
  /\ \E r \in ConfigResults :
       /\ launched' = Append(launched, LCall("config", PROJECT_NAME, r))
       /\ IF r.raised THEN combined_file' = TRUE /\ Exits(1)
          ELSE IF r.returncode # 0 THEN combined_file' = FALSE /\ Exits(r.returncode)
          ELSE combined_file' = TRUE /\ lpc' = "pull" /\ UNCHANGED returncode
  /\ UNCHANGED <<environ, root_dir_name, setup_script, state_file, setup>>
  /\ UNCHANGED <<daemon, beside_launcher>>

\* main, lines 155 to 166 and 184 to 188: pull with check=True; an exception
\* runs the finally block and ends the process with status 1
Pull ==
  /\ lpc = "pull"
  /\ \E r \in DaemonResults :
       /\ launched' = Append(launched, LCall("pull", PROJECT_NAME, r))
       /\ IF r.raised \/ r.returncode # 0
          THEN combined_file' = FALSE /\ Exits(1)
          ELSE lpc' = "setup_echo" /\ UNCHANGED <<combined_file, returncode>>
  /\ UNCHANGED <<environ, root_dir_name, setup_script, state_file, setup>>
  /\ UNCHANGED <<daemon, beside_launcher>>

\* main, lines 168 and 169 and 184 to 188: setup-echo.sh with check=True
SetupEcho ==
  /\ lpc = "setup_echo"
  /\ \E r \in ScriptResults :
       /\ launched' = Append(launched, LCall("setup_echo", <<>>, r))
       /\ IF r.raised \/ r.returncode # 0
          THEN combined_file' = FALSE /\ Exits(1)
          ELSE lpc' = "up" /\ UNCHANGED <<combined_file, returncode>>
  /\ UNCHANGED <<environ, root_dir_name, setup_script, state_file, setup>>
  /\ UNCHANGED <<daemon, beside_launcher>>

\* a container of this name stands under another project
NameTaken(d, name, project) ==
  \E r \in d.containers : r.name = name /\ r.project # project

\* the daemon after docker compose -p <project> up on the merged manifest:
\* the image, the volume and the network under the project's prefix and
\* label, and the named container unless its name is taken
WithStack(d, project) ==
  [d EXCEPT !.images = @ \cup {ImageRow(s_i2, s_app_latest)},
            !.volumes = @ \cup {Row(Prefixed(project, s_data), project)},
            !.networks = @ \cup {Row(Prefixed(project, s_net), project)},
            !.containers = IF NameTaken(d, s_app1, project) THEN @
                           ELSE @ \cup {Row(s_app1, project)}]

\* main, lines 171 to 188: up, whose status is returned after the finally
\* block has unlinked the temporary file
Up ==
  /\ lpc = "up"
  /\ \E r \in DaemonResults :
       /\ launched' = Append(launched, LCall("up", PROJECT_NAME, r))
       /\ Exits(IF r.raised THEN 1 ELSE r.returncode)
       /\ IF r.raised \/ ~daemonUp THEN daemon' = daemon
          ELSE IF r.returncode = 0 /\ ~NameTaken(daemon, s_app1, PROJECT_NAME)
          THEN daemon' = WithStack(daemon, PROJECT_NAME)
          ELSE /\ r.returncode # 0
               /\ daemon' \in {daemon, WithStack(daemon, PROJECT_NAME)}
  /\ combined_file' = FALSE
  /\ UNCHANGED <<environ, root_dir_name, setup_script, state_file, setup>>
  /\ UNCHANGED beside_launcher

\* the cleanup process is not running; the files and the daemon apart
NoCleanup ==
  /\ run = 1
  /\ pc = "none"
  /\ base_config = PyNone
  /\ runtime_config = PyNone
  /\ ex = NewExtractor
  /\ extracted = {}
  /\ todo = {}
  /\ cur = <<>>
  /\ idx = 1
  /\ tags = {}
  /\ exit_code = -1
  /\ exc = "none"
  /\ raised_in = "none"
  /\ executed = {}
  /\ would_run = {}
  /\ nonzero = {}
  /\ launch_failed = FALSE
  /\ disturbed = FALSE
  /\ response = NoResponse
  /\ report = NoReport
  /\ reporter_patterns = DockerReporter(PyList(patterns))
  /\ prev = <<>>
  /\ NoSizes

\* the launcher on its own: every state of the setup script and of the
\* state marker, the manifests there or not, the project name set or not
InitLauncher ==
  /\ NoCleanup
  /\ faults = 0
  /\ baseFile \in {MissingFile, OkFile(T_base)}
  /\ runtimeFile \in {MissingFile, OkFile(T_net), OkFile(PyNone)}
  /\ daemon = EmptyDaemon
  /\ start_daemon = EmptyDaemon
  /\ daemonUp \in BOOLEAN
  /\ dry_run = FALSE
  /\ environ \in {PyNone, PyStr(s_edge)}
  /\ root_dir_name = s_juno_runtime
  /\ \E i \in 1..Len(SetupScripts) : setup_script = SetupScripts[i]
  /\ \E i \in 1..Len(StateFiles) : state_file = StateFiles[i]
  /\ lpc = "none"
  /\ combined_file = FALSE
  /\ launched = <<>>
  /\ returncode = -1
  /\ setup = NoSetup

NextLauncher ==
  \/ StartLauncher
  \/ EnsureJetsonSetup
  \/ EnsureComposeFile
  \/ BuildCombinedCompose
  \/ Pull
  \/ SetupEcho
  \/ Up

LauncherSpec == InitLauncher /\ [][NextLauncher]_vars

\* ---------------------------------------------- the launcher, then cleanup

\* cleanup_juno.py is started once the launcher has ended, on the daemon as
\* the launcher left it
RunCleanup ==
  /\ lpc = "exited"
  /\ pc = "none"
  /\ pc' = "parse"
  /\ dry_run' \in BOOLEAN
  /\ start_daemon' = daemon
  /\ UNCHANGED <<files, io, todo, cur, idx, tags, exit_code, exc, raised_in, data,
                 extracted, run, daemonUp, prev, reporter_patterns, sizes, launcher>>

\* both manifests in place, no provisioning script, a daemon that answers
\* and an environment that fails no call; the project name is unset or set,
\* and the launcher's directory is named juno or juno-runtime
InitStack ==
  /\ NoCleanup
  /\ faults = MaxFaults
  /\ baseFile = OkFile(T_base)
  /\ runtimeFile = OkFile(T_net)
  /\ \E i \in 1..Len(DaemonInits) : daemon = DaemonInits[i] /\ start_daemon = DaemonInits[i]
  /\ daemonUp = TRUE
  /\ dry_run = FALSE
  /\ environ \in {PyNone, PyStr(s_juno), PyStr(s_helios), PyStr(s_edge)}
  /\ root_dir_name \in {s_juno, s_juno_runtime}
  /\ setup_script = NoFile
  /\ state_file = NoFile
  /\ lpc = "none"
  /\ combined_file = FALSE
  /\ launched = <<>>
  /\ returncode = -1
  /\ setup = NoSetup

NextStack ==
  \/ StartLauncher
  \/ EnsureJetsonSetup
  \/ EnsureComposeFile
  \/ BuildCombinedCompose
  \/ Pull
  \/ SetupEcho
  \/ Up
  \/ RunCleanup
  \/ ParseComposeFiles
  \/ ExtractAll
  \/ GetMergedConfig
  \/ BringDown
  \/ StopContainer
  \/ RemoveContainer
  \/ RemoveImage
  \/ EnumerateTags
  \/ RemoveTag
  \/ RemoveVolume
  \/ RemoveVolumePrefixed
  \/ RemoveNetwork
  \/ RemoveNetworkPrefixed
  \/ ComposeDown
  \/ ListLeftoverImages
  \/ RemoveLeftoverImage
  \/ CleanDanglingImages
  \/ GetLeftoverContainers
  \/ GetLeftoverImages
  \/ GetLeftoverVolumes
  \/ GetLeftoverNetworks
  \/ PrintSummary

StackSpec == InitStack /\ [][NextStack]_vars

\* the launcher's up calls that were started
UpCalls == {i \in 1..Len(launched) : launched[i].op = "up" /\ ~launched[i].raised}

\* the containers, volumes and networks that carry this project's label
OfProject(d, project) ==
  {r \in d.containers \cup d.volumes \cup d.networks : r.project = project}

\* C29: every project name under which the launcher brings the stack up (the
\* COMPOSE_PROJECT_NAME value, or the directory name when it is unset) is one
\* of the project names of the cleanup sweep, and so an execute-mode sweep
\* that returned 0 after the launcher leaves no container, volume or network
\* of the launcher's project on the daemon.
C29_LauncherProjectIsCleaned ==
  /\ \A i \in UpCalls : \E j \in 1..Len(project_names) : project_names[j] = launched[i].arg
  /\ (UpCalls # {} /\ SweepReturned /\ ~dry_run) => OfProject(daemon, PROJECT_NAME) = {}

\* C29, its second half alone: the sweep after the launcher leaves nothing
\* of the launcher's project
C29_StackIsGone ==
  (UpCalls # {} /\ SweepReturned /\ ~dry_run) => OfProject(daemon, PROJECT_NAME) = {}

\* C29 for the two names the sweep knows: a stack launched as juno or helios
\* on a daemon that held nothing is gone after the sweep
C29_KnownProjectIsGone ==
  (/\ UpCalls # {} /\ SweepReturned /\ ~dry_run
   /\ PROJECT_NAME \in {s_juno, s_helios}
   /\ start_daemon.containers = {})
    => OfProject(daemon, PROJECT_NAME) = {}

\* the launcher's runs of the setup script
SetupCalls == {i \in 1..Len(launched) : launched[i].op = "setup"}

\* the launcher's calls of docker
DaemonCalls == {i \in 1..Len(launched) : launched[i].op \in {"config", "pull", "up"}}

\* the setup scripts of SetupScripts whose version can be read and parsed:
\* the two that carry VERSION 1.10
C30_ScriptVersionKnown ==
  setup_script \in {ScriptWith(KeyValueLine(s_VERSION, s_1_10)), ScriptWith(s_VERSION_tight)}

\* the state markers of StateFiles that are missing, or record no version or
\* one that is no number, or record a version below 1.10: 1.9 and 1
C30_MarkerMissingOrOlder ==
  state_file \in {NoFile, UnreadableFile, TextFile(<<KeyValueLine(s_setup_on, s_timestamp)>>),
                  write_state_file(s_1_x), write_state_file(s_1_9), write_state_file(s_1),
                  TextFile(<<s_Version_1_9>>)}

\* the step of ensure_jetson_setup runs the script exactly in these cases
C30_Step ==
  lpc = "ensure_jetson_setup" =>
    (SetupCalls' # {} <=> (C30_ScriptVersionKnown /\ C30_MarkerMissingOrOlder))

\* a setup script that exited nonzero: the launcher has exited with that
\* status and called docker not once
C30_NonzeroEnds ==
  \A i \in SetupCalls :
    (~launched[i].raised /\ launched[i].returncode # 0) =>
      /\ lpc = "exited"
      /\ returncode = launched[i].returncode
      /\ DaemonCalls = {}

\* C30: the launcher runs the setup script exactly when the script's version
\* can be read and parsed and the state marker is missing, records no version
\* or an unparseable one, or records a version strictly lower (as integer
\* tuples) than the script's; with an equal or higher recorded version the
\* script is not run; when the script exits nonzero the launcher exits with
\* that status before any call of docker.
C30_SetupRunsExactlyWhenStale == []C30_NonzeroEnds /\ [][C30_Step]_vars

\* the marker recorded 1.9, the script at 1.10 was run and exited 1, and the
\* launcher has exited 1
C30_Witness ==
  /\ lpc = "exited"
  /\ returncode = 1
  /\ launched = <<LCall("setup", <<>>, Completed(1))>>
  /\ setup_script = ScriptWith(KeyValueLine(s_VERSION, s_1_10))
  /\ state_file = write_state_file(s_1_9)

\* the marker recorded 1.10.1, above the script's 1.10: the launcher went on
\* to docker without a run of the script
C30_NotRunWhenHigher ==
  /\ state_file = write_state_file(s_1_10_1)
  /\ setup_script = ScriptWith(KeyValueLine(s_VERSION, s_1_10))
  /\ DaemonCalls # {}
  /\ SetupCalls = {}

\* ------------------------------------------- provisioning, then the launcher

\* setup-jetson.py is run by hand in the launcher's directory, before the
\* launcher is started
RunSetup ==
  /\ lpc = "none"
  /\ ~setup.ran
  /\ setup_script.kind = "text"
  /\ Truthy(read_setup_version(setup_script))
  /\ \E r \in SetupRuns(state_file, read_setup_version(setup_script).v) :
       /\ state_file' = r.state_file
       /\ setup' = NotedBy(r)
  /\ UNCHANGED <<environ, root_dir_name, setup_script, lpc, combined_file, launched,
                 returncode>>
  /\ UNCHANGED <<daemon, beside_launcher>>

NextProvision ==
  \/ RunSetup
  \/ StartLauncher
  \/ EnsureJetsonSetup
  \/ EnsureComposeFile
  \/ BuildCombinedCompose
  \/ Pull
  \/ SetupEcho
  \/ Up

ProvisionSpec == InitLauncher /\ [][NextProvision]_vars

\* the last setup run, of the script at VERSION 1.10, returned 0 with no
\* action noted as requiring root, from a marker that was missing, recorded
\* an older version (1.9, 1) or recorded 1.10
C31_CompletedRun ==
  /\ setup.ran
  /\ setup.returncode = 0
  /\ setup.root_missing_actions = {}
  /\ setup_script \in {ScriptWith(KeyValueLine(s_VERSION, s_1_10)), ScriptWith(s_VERSION_tight)}
  /\ setup.before \in {NoFile, write_state_file(s_1_9), write_state_file(s_1),
                       TextFile(<<s_Version_1_9>>), write_state_file(s_1_10)}

\* after such a run the marker records 1.10
C31_MarkerRecordsVersion ==
  C31_CompletedRun => read_recorded_version(state_file) = PyStr(s_1_10)

\* the launch that follows such a run does not run the setup script
C31_NextLaunchSkipsSetup ==
  (lpc = "ensure_jetson_setup" /\ C31_CompletedRun) => SetupCalls' = {}

\* the launch after such a run, taken alone
C31_NextLaunchSkips == [][C31_NextLaunchSkipsSetup]_vars

\* C31: provisioning converges: after a setup run that returns 0 with no
\* action left requiring root, the state marker records the script's VERSION
\* and the next launch does not run the setup script, from a marker that was
\* missing, older or at the same version, whether or not the run changed a
\* host setting.
C31_ProvisioningConverges == []C31_MarkerRecordsVersion /\ [][C31_NextLaunchSkipsSetup]_vars

\* C31 for the runs that changed a host setting, and for those that found
\* no marker: these record the version
C31_ConvergesAfterChange ==
  (C31_CompletedRun /\ (setup.changes_made \/ setup.before = NoFile))
    => read_recorded_version(state_file) = PyStr(s_1_10)

\* a setup run noted an action requiring root: the marker is as it was before
\* the run and the run returned 0
C32_MarkerAsBefore ==
  (setup.ran /\ setup.root_missing_actions # {}) =>
    (state_file = setup.before /\ setup.returncode = 0)

\* the step of a setup run that notes an action requiring root changes no
\* marker
C32_Step ==
  (setup' # setup /\ setup'.root_missing_actions # {}) =>
    (state_file' = state_file /\ setup'.returncode = 0)

\* C32: a setup run that recorded at least one action as requiring root
\* privileges never writes or modifies the state marker, which is left as it
\* was before the run, and the run returns 0.
C32_RootMissingLeavesMarker == []C32_MarkerAsBefore /\ [][C32_Step]_vars

\* a run without privileges noted actions, on a host with no marker, and
\* returned 0: there is still no marker
C32_Witness ==
  /\ setup.ran
  /\ setup.root_missing_actions = {"docker_group", "power_mode"}
  /\ setup.before = NoFile
  /\ state_file = NoFile
  /\ setup.returncode = 0

\* a call of the launcher that is no run of the setup script
IsStep(call) == call.op # "setup"

\* the launcher's calls after provisioning, in the order they were made
Steps == SelectSeq(launched, IsStep)

\* the order of the claim
C33_StepOrder == <<"config", "pull", "setup_echo", "up">>

\* a call that was started and exited 0
C33_Succeeded(call) == ~call.raised /\ call.returncode = 0

\* the setup script ended the launcher
C33_SetupEnded == \E i \in SetupCalls : ~C33_Succeeded(launched[i])

\* the calls made so far are the first of config, pull, setup-echo, up, in
\* that order; a missing manifest means no call of docker, and exit 1 unless
\* the setup script had ended the launcher; a config that exited nonzero is
\* the last call and its status the launcher's; up follows a pull and a
\* setup-echo that exited 0
C33_Ordered ==
  /\ Len(Steps) <= Len(C33_StepOrder)
  /\ \A i \in 1..Len(Steps) : Steps[i].op = C33_StepOrder[i]
  /\ (~Exists(baseFile) \/ ~Exists(runtimeFile)) =>
       /\ Steps = <<>>
       /\ (lpc = "exited" /\ ~C33_SetupEnded) => returncode = 1
  /\ (Steps # <<>> /\ ~Steps[1].raised /\ Steps[1].returncode # 0) =>
       /\ Len(Steps) = 1
       /\ lpc = "exited"
       /\ returncode = Steps[1].returncode
  /\ Len(Steps) = 4 => (C33_Succeeded(Steps[2]) /\ C33_Succeeded(Steps[3]))

\* every step appends at most one call
C33_OneCallAStep == Len(launched') <= Len(launched) + 1

\* C33: the launcher issues its steps in the order config resolve, pull,
\* setup-echo, up; it exits with code 1 before any call of docker when a
\* manifest file is missing; it exits with the status of the config resolve
\* when that fails; and it issues up only when pull and setup-echo both
\* completed successfully.
C33_StepsInOrder == []C33_Ordered /\ [][C33_OneCallAStep]_vars

\* config exited 2 and the launcher has exited 2 with no further call
C33_Witness ==
  /\ lpc = "exited"
  /\ returncode = 2
  /\ Len(Steps) = 1
  /\ Steps[1].op = "config"
  /\ Steps[1].returncode = 2

\* the runtime manifest is missing and the launcher has exited 1 with no call
C33_MissingManifestExit ==
  /\ Exists(baseFile)
  /\ ~Exists(runtimeFile)
  /\ lpc = "exited"
  /\ returncode = 1
  /\ launched = <<>>

\* all four steps were issued
C33_UpIssued == Len(Steps) = 4 /\ Steps[4].op = "up" /\ lpc = "exited"

\* C34: the temporary merged manifest never outlives the launcher: on every
\* exit path after its creation (config resolve failure, pull failure,
\* setup-echo failure, up returning any status) the file has been deleted
\* when the launcher has terminated.
C34_TempFileNeverOutlives == lpc = "exited" => ~combined_file

\* C34 for the paths on which docker compose config was started: after a
\* config that exited nonzero, and after every end of the try block of main,
\* the file is gone
C34_GoneWhenConfigStarted ==
  (lpc = "exited" /\ \A i \in 1..Len(launched) : launched[i].op = "config" => ~launched[i].raised)
    => ~combined_file

====
